---- MODULE Spec2Model ----
(***************************************************************************)
(* npm-console: the backend registry (ManagerFactory) and the aggregation  *)
(* services (cache, package, config, project) that fan one operation out   *)
(* to every available package-manager backend and merge the results.       *)
(*                                                                         *)
(* One service call is in flight at a time.  A single-backend call is one  *)
(* action.  A fan-out call is a Start action (validation,                  *)
(* GetAvailableManagers, one goroutine per snapshot entry), one Task       *)
(* action per goroutine (the backend call and the append under the call's  *)
(* mutex) and a Join action (wg.Wait, merge, sort, return).  Backends are  *)
(* modelled at the level of the core.PackageManager interface: every call  *)
(* may succeed or fail, except where a built-in backend fixes the outcome  *)
(* (bun's setters and global package list).  Whether a backend is          *)
(* available is part of the environment and changes between calls.         *)
(*                                                                         *)
(* invoked and probed record, for the call in flight, the backend          *)
(* operations and availability probes it made; the properties read them.   *)
(***************************************************************************)
EXTENDS Integers, Sequences, FiniteSets, TLC

\* ------------------------------------------------------------------ bounds

\* State-changing steps (Register, Unregister, cache clearing, registry and
\* proxy setting, a backend becoming available or unavailable) explored in one
\* behaviour.
MaxChanges == 2
\* Size of each backend's cache directory before anything clears it.
MaxCacheSize == 1
\* Most packages the backends report to one call, all lists together.
MaxPkgs == 3

\* ------------------------------------------------------------- vocabulary

\* The four backends registerManagers constructs; a backend instance is
\* identified by what its Name() returns.
Backends == {"bun", "npm", "pnpm", "yarn"}

\* Names a caller may pass to the registry: the built-in ones and one that
\* construction never registers.
ManagerNames == Backends \cup {"bogus"}

\* Go compares strings bytewise; every string the model sorts by, ascending.
Lexicon == <<"/p", "/q", "a", "a@1", "b", "bogus", "bun", "npm", "pnpm", "yarn">>

Rank(s) == CHOOSE i \in 1..Len(Lexicon) : Lexicon[i] = s

\* a < b on Go strings
StringLess(a, b) == Rank(a) < Rank(b)

Range(s) == {s[i] : i \in 1..Len(s)}

\* ------------------------------------------------------------------ errors

Nil == [kind |-> "nil"]

\* fmt.Errorf("package manager '%s' not found", name)
ErrNotFound(name) == [kind |-> "NotFound", manager |-> name]

\* fmt.Errorf("package manager '%s' already registered", name)
ErrAlreadyRegistered(name) == [kind |-> "AlreadyRegistered", manager |-> name]

\* core.NewManagerError(manager, op, cause)
NewManagerError(manager, operation, cause) ==
    [kind |-> "ManagerError", manager |-> manager, op |-> operation, cause |-> cause]

\* core.NewValidationError(field, value, message)
NewValidationError(field, value, message) ==
    [kind |-> "ValidationError", field |-> field, value |-> value, message |-> message]

\* the error a failing backend call returns (the backend's own ManagerError)
BackendError(b, operation) == NewManagerError(b, operation, "exec")

\* fmt.Errorf("failed to ... for %s: %w", name, err), collected in errors
TaskError(name, cause) == [kind |-> "TaskError", manager |-> name, cause |-> cause]

\* fmt.Errorf("failed to ... some ...: %v", errors)
CombinedError(errs) == [kind |-> "Combined", errors |-> errs]

\* ------------------------------------------------------------- URL parsing

\* URLs are sequences of one-character strings.
Letters == {"a", "d", "f", "h", "p", "s", "t", "x", "y"}
Digits == {"0", "1"}

RECURSIVE IndexFrom(_, _, _)
\* strings.Index from position i: the first j >= i with s[j] = c, or 0
IndexFrom(s, c, i) ==
    IF i > Len(s) THEN 0
    ELSE IF s[i] = c THEN i
    ELSE IndexFrom(s, c, i + 1)

RECURSIVE LastIndexFrom(_, _, _)
\* strings.LastIndex scanning down from position i: the last j <= i with
\* s[j] = c, or 0
LastIndexFrom(s, c, i) ==
    IF i < 1 THEN 0
    ELSE IF s[i] = c THEN i
    ELSE LastIndexFrom(s, c, i - 1)

HasPrefix2(s, c1, c2) == Len(s) >= 2 /\ s[1] = c1 /\ s[2] = c2

RECURSIVE getSchemeFrom(_, _)
\* net/url getScheme: [scheme, rest, err]
getSchemeFrom(rawURL, i) ==
    IF i > Len(rawURL) THEN [scheme |-> <<>>, rest |-> rawURL, err |-> FALSE]
    ELSE IF rawURL[i] \in Letters THEN getSchemeFrom(rawURL, i + 1)
    ELSE IF rawURL[i] \in Digits \cup {"+", "-", "."}
         THEN IF i = 1 THEN [scheme |-> <<>>, rest |-> rawURL, err |-> FALSE]
              ELSE getSchemeFrom(rawURL, i + 1)
    ELSE IF rawURL[i] = ":"
         THEN IF i = 1 THEN [scheme |-> <<>>, rest |-> <<>>, err |-> TRUE]
              ELSE [scheme |-> SubSeq(rawURL, 1, i - 1),
                    rest |-> SubSeq(rawURL, i + 1, Len(rawURL)), err |-> FALSE]
    ELSE [scheme |-> <<>>, rest |-> rawURL, err |-> FALSE]

getScheme(rawURL) == getSchemeFrom(rawURL, 1)

\* net/url validOptionalPort: "" or ":" followed by digits only
validOptionalPort(port) ==
    \/ port = <<>>
    \/ /\ port[1] = ":"
       /\ \A i \in 2..Len(port) : port[i] \in Digits

\* net/url parseAuthority/parseHost for authorities without userinfo or
\* brackets: the host is kept whole, its port suffix must be numeric
parseHost(authority) ==
    LET colon == LastIndexFrom(authority, ":", Len(authority))
        port == IF colon = 0 THEN <<>> ELSE SubSeq(authority, colon, Len(authority))
    IN  [host |-> authority, err |-> ~validOptionalPort(port)]

\* net/url Parse: [err, Scheme, Host]
urlParse(rawURL) ==
    LET s == getScheme(rawURL)
        rest == s.rest
        slash == IndexFrom(rest, "/", 1)
        segment == IF slash = 0 THEN rest ELSE SubSeq(rest, 1, slash - 1)
        afterSlashes == SubSeq(rest, 3, Len(rest))
        authEnd == IndexFrom(afterSlashes, "/", 1)
        authority == IF authEnd = 0 THEN afterSlashes
                     ELSE SubSeq(afterSlashes, 1, authEnd - 1)
        h == parseHost(authority)
    IN  IF s.err THEN [err |-> TRUE, Scheme |-> <<>>, Host |-> <<>>]
        ELSE IF ~(Len(rest) >= 1 /\ rest[1] = "/")
             THEN IF s.scheme # <<>>
                  THEN \* rootless path: opaque URL, no host
                       [err |-> FALSE, Scheme |-> s.scheme, Host |-> <<>>]
                  ELSE \* first path segment in URL cannot contain colon
                       [err |-> IndexFrom(segment, ":", 1) # 0,
                        Scheme |-> <<>>, Host |-> <<>>]
        ELSE IF HasPrefix2(rest, "/", "/")
                /\ ~(Len(rest) >= 3 /\ rest[3] = "/" /\ s.scheme = <<>>)
             THEN [err |-> h.err, Scheme |-> s.scheme,
                   Host |-> IF h.err THEN <<>> ELSE h.host]
        ELSE [err |-> FALSE, Scheme |-> s.scheme, Host |-> <<>>]

HTTP == <<"h", "t", "t", "p">>
HTTPS == <<"h", "t", "t", "p", "s">>

\* a validation that checks the scheme and forgets the host
ValidateSchemeOnly(registryURL) ==
    LET parsedURL == urlParse(registryURL) IN
    IF registryURL = <<>>
    THEN NewValidationError("registry", registryURL, "registry URL cannot be empty")
    ELSE IF parsedURL.err
    THEN NewValidationError("registry", registryURL, "invalid URL format")
    ELSE IF parsedURL.Scheme # HTTP /\ parsedURL.Scheme # HTTPS
    THEN NewValidationError("registry", registryURL,
                            "registry URL must use http or https scheme")
    ELSE Nil

\* ConfigService.ValidateRegistryURL: the error returned, Nil when valid
ValidateRegistryURL(registryURL) ==
    LET parsedURL == urlParse(registryURL) IN
    IF registryURL = <<>>
    THEN NewValidationError("registry", registryURL, "registry URL cannot be empty")
    ELSE IF parsedURL.err
    THEN NewValidationError("registry", registryURL, "invalid URL format")
    ELSE IF parsedURL.Scheme # HTTP /\ parsedURL.Scheme # HTTPS
    THEN NewValidationError("registry", registryURL,
                            "registry URL must use http or https scheme")
    ELSE IF parsedURL.Host = <<>>
    THEN NewValidationError("registry", registryURL, "registry URL must have a host")
    ELSE Nil

\* ConfigService.ValidateProxyURL
ValidateProxyURL(proxyURL) ==
    LET parsedURL == urlParse(proxyURL) IN
    IF proxyURL = <<>> THEN Nil
    ELSE IF parsedURL.err
    THEN NewValidationError("proxy", proxyURL, "invalid URL format")
    ELSE IF parsedURL.Scheme # HTTP /\ parsedURL.Scheme # HTTPS
    THEN NewValidationError("proxy", proxyURL, "proxy URL must use http or https scheme")
    ELSE IF parsedURL.Host = <<>>
    THEN NewValidationError("proxy", proxyURL, "proxy URL must have a host")
    ELSE Nil

\* "https://h"
URLHttpsH == <<"h", "t", "t", "p", "s", ":", "/", "/", "h">>
\* "http://p/"
URLHttpP == <<"h", "t", "t", "p", ":", "/", "/", "p", "/">>
\* "https://d/", what a backend is configured with at first
URLDefault == <<"h", "t", "t", "p", "s", ":", "/", "/", "d", "/">>
\* "x-y", a bare word
URLBareWord == <<"x", "-", "y">>
\* "ftp://h/"
URLFtp == <<"f", "t", "p", ":", "/", "/", "h", "/">>
\* "http://", no host
URLNoHost == <<"h", "t", "t", "p", ":", "/", "/">>

\* URLs callers pass to the registry setters
RegistryInputs == {<<>>, URLBareWord, URLFtp, URLNoHost, URLHttpsH}
\* URLs callers pass to the proxy setters
ProxyInputs == {<<>>, URLBareWord, URLFtp, URLHttpP}

\* "h.d", a host without a scheme
URLSchemeless == <<"h", ".", "d">>

\* the pieces the strings given to the validators are put together from:
\* what stands before the first colon, the separator, the authority, the path
SchemeParts == {<<>>, HTTP, HTTPS, <<"f", "t", "p">>, <<"1", "x">>}
SeparatorParts == {<<>>, <<":">>, <<":", "/">>, <<":", "/", "/">>, <<"/", "/">>}
AuthorityParts == {<<>>, <<"h">>, <<"h", ":", "1">>, <<"h", ":", "x">>, <<":", "1">>}
PathParts == {<<>>, <<"/">>, <<"/", "p">>}

\* strings callers pass to ValidateRegistryURL and ValidateProxyURL
URLInputs ==
    {s \o sep \o a \o p : s \in SchemeParts, sep \in SeparatorParts,
                          a \in AuthorityParts, p \in PathParts}
    \cup {URLBareWord, URLSchemeless}

\* ------------------------------------------------------------------- state

VARIABLES
    managers,           \* ManagerFactory.managers: registered name -> backend
    available,          \* backend -> whether its executable runs on this system
    cache,              \* backend -> size of its cache directory
    registryCfg,        \* backend -> registry URL it is configured with
    proxyCfg,           \* backend -> proxy URL it is configured with (<<>> unset)
    changes,            \* state-changing steps taken so far
    pc,                 \* "idle", "fanout" (goroutines running) or "done"
    op,                 \* the service method in flight or just returned
    arg,                \* its arguments: [name, url, path]
    availableManagers,  \* the call's GetAvailableManagers snapshot
    pending,            \* snapshot names whose goroutine has not finished
    acc,                \* cacheInfos / allPackages / configs / allProjects
    errors,             \* the call's errors slice
    successCount,       \* clearedCount / successCount
    invoked,            \* backend -> how each call of the operation ended, this call
    probed,             \* backend -> IsAvailable calls, this call
    result,             \* returned value, as a slice (<<>> is nil)
    err,                \* returned error
    held,               \* the map a caller got from GetAllManagers: [shared, map]
    mu,                 \* ManagerFactory.mu: [readers, writer, waiting]
    threads,            \* goroutine -> the registry method it is running
    ctxDone,            \* the context of the call in flight is done
    hung,               \* snapshot names whose backend call never returns
    factoryOnce,        \* sync.Once of the global factory: [done, holder]
    globalFactory,      \* the global factory: 0 (nil) or the instance built
    constructions,      \* how many times NewManagerFactory has run
    procs,              \* the external processes that are running
    disk                \* directory -> the names of the files in it

vars == <<managers, available, changes, cache, registryCfg, proxyCfg, pc, op, arg,
          availableManagers, pending, acc, errors, successCount, invoked,
          probed, result, err, held, mu, threads, ctxDone, hung,
          factoryOnce, globalFactory, constructions, procs, disk>>

lockState == <<mu, threads>>
ctxState == <<ctxDone, hung>>
\* what a service call modelled as one step leaves alone
\* what lives as long as the process: the global factory and the commands
\* the backends have started
processState == <<factoryOnce, globalFactory, constructions, procs, disk>>
otherState == <<held, mu, threads, ctxDone, hung, processState>>

backendState == <<cache, registryCfg, proxyCfg>>
fanoutState == <<availableManagers, pending, acc, errors, successCount>>

\* the directories projects are looked for in
ProjectPaths == {"/p", "/q"}
\* directories without a file in them
NoFiles == [p \in ProjectPaths |-> {}]

NoCalls == [b \in Backends |-> 0]
NoInvocations == [b \in Backends |-> <<>>]
EmptyMap == [n \in {} |-> "bun"]
NoArg == [name |-> "", url |-> <<>>, path |-> ""]

\* the goroutines that call the registry
Threads == {"t1", "t2"}
\* a goroutine that is not in a registry method
Resting == [pc |-> "idle", op |-> "none", name |-> "", manager |-> "",
            todo |-> {}, ctxDone |-> FALSE, got |-> 0]
\* sync.RWMutex zero value
Unlocked == [readers |-> {}, writer |-> {}, waiting |-> {}]

\* NewManagerFactory / registerManagers: the registry after construction
registerManagers == [n \in Backends |-> n]

Init ==
    /\ managers = registerManagers
    /\ available = [b \in Backends |-> TRUE]
    /\ cache = [b \in Backends |-> MaxCacheSize]
    /\ registryCfg = [b \in Backends |-> URLDefault]
    /\ proxyCfg = [b \in Backends |-> <<>>]
    /\ changes = 0
    /\ pc = "idle"
    /\ op = "none"
    /\ arg = NoArg
    /\ availableManagers = EmptyMap
    /\ pending = {}
    /\ acc = <<>>
    /\ errors = <<>>
    /\ successCount = 0
    /\ invoked = NoInvocations
    /\ probed = NoCalls
    /\ result = <<>>
    /\ err = Nil
    /\ held = [shared |-> FALSE, map |-> EmptyMap]
    /\ mu = Unlocked
    /\ threads = [t \in Threads |-> Resting]
    /\ ctxDone = FALSE
    /\ hung = {}
    /\ factoryOnce = [done |-> TRUE, holder |-> "none"]
    /\ globalFactory = 1
    /\ constructions = 1
    /\ procs = {}
    /\ disk = NoFiles

\* one more call of a backend's IsAvailable
Bump(counts, b) == [counts EXCEPT ![b] = @ + 1]

\* one more call of a backend's operation, which returned the error e
Called(calls, b, e) == [calls EXCEPT ![b] = Append(@, e = Nil)]

\* ---------------------------------------------------------------- registry

\* a GetManager that falls back to npm when the name is unknown: the lookup
\* UnknownNameNotFound must tell apart from the real one
GetManagerOrDefault(name) ==
    IF name \in DOMAIN managers
    THEN [manager |-> <<managers[name]>>, err |-> Nil]
    ELSE IF "npm" \in DOMAIN managers
    THEN [manager |-> <<managers["npm"]>>, err |-> Nil]
    ELSE [manager |-> <<>>, err |-> ErrNotFound(name)]

\* ManagerFactory.GetManager: [manager, err]; manager is <<>> when absent
GetManager(name) ==
    IF name \in DOMAIN managers
    THEN [manager |-> <<managers[name]>>, err |-> Nil]
    ELSE [manager |-> <<>>, err |-> ErrNotFound(name)]

\* an availability probe that always answers yes
AlwaysAvailable(b) == TRUE

\* PackageManager.IsAvailable: "<backend> --version" runs without error
IsAvailable(b) == available[b]

\* a snapshot that skips the availability probe: every registered manager
EveryRegisteredManager == managers

\* a GetAllManagers that hands out the registry's own map
GetAllManagersShared == [shared |-> TRUE, map |-> managers]

\* ManagerFactory.GetAllManagers: a new map filled with the registry's entries
GetAllManagers == [shared |-> FALSE, map |-> managers]

\* ManagerFactory.GetAvailableManagers
GetAvailableManagers ==
    [n \in {m \in DOMAIN managers : IsAvailable(managers[m])} |-> managers[n]]

\* the IsAvailable calls GetAvailableManagers makes: one per registered name
ProbeAll == [b \in Backends |-> Cardinality({n \in DOMAIN managers : managers[n] = b})]

\* the caller takes the returned value; the service is ready for the next call
Return ==
    /\ pc = "done"
    /\ pc' = "idle"
    /\ op' = "none"
    /\ arg' = NoArg
    /\ availableManagers' = EmptyMap
    /\ pending' = {}
    /\ acc' = <<>>
    /\ errors' = <<>>
    /\ successCount' = 0
    /\ invoked' = NoInvocations
    /\ probed' = NoCalls
    /\ result' = <<>>
    /\ err' = Nil
    /\ ctxDone' = FALSE
    /\ hung' = {}
    /\ UNCHANGED <<processState, held, lockState, managers, available, backendState, changes>>

\* a call that returns without fanning out
Finish(opName, a, value, e) ==
    /\ pc' = "done"
    /\ op' = opName
    /\ arg' = a
    /\ result' = value
    /\ err' = e
    /\ UNCHANGED fanoutState

\* ManagerFactory.GetManager called directly
CallGetManager(name) ==
    /\ pc = "idle"
    /\ LET g == GetManager(name) IN
       Finish("GetManager", [NoArg EXCEPT !.name = name], g.manager, g.err)
    /\ UNCHANGED <<otherState, managers, available, backendState, changes, invoked, probed>>

\* ManagerFactory.GetAllManagers called directly; the caller keeps the map
CallGetAllManagers ==
    /\ pc = "idle"
    /\ held' = GetAllManagers
    /\ Finish("GetAllManagers", NoArg, <<>>, Nil)
    /\ UNCHANGED <<processState, lockState, ctxState, managers, available, backendState, changes,
                   invoked, probed>>

\* the caller stores an entry in the map it was given
CallerPut(name, manager) ==
    /\ pc = "idle"
    /\ changes < MaxChanges
    /\ changes' = changes + 1
    /\ held' = [held EXCEPT !.map = [n \in DOMAIN held.map \cup {name} |->
                                       IF n = name THEN manager ELSE held.map[n]]]
    /\ managers' = IF held.shared THEN held'.map ELSE managers
    /\ UNCHANGED <<processState, lockState, ctxState, available, backendState, pc, op, arg,
                   fanoutState, invoked, probed, result, err>>

\* the caller deletes an entry of the map it was given
CallerDelete(name) ==
    /\ pc = "idle"
    /\ changes < MaxChanges
    /\ changes' = changes + 1
    /\ held' = [held EXCEPT !.map = [n \in DOMAIN held.map \ {name} |-> held.map[n]]]
    /\ managers' = IF held.shared THEN held'.map ELSE managers
    /\ UNCHANGED <<processState, lockState, ctxState, available, backendState, pc, op, arg,
                   fanoutState, invoked, probed, result, err>>

\* the caller's map after the registry's map became m: a Go map value is a
\* reference, so the caller sees the write when both are the same map
HeldAfter(m) == IF held.shared THEN [held EXCEPT !.map = m] ELSE held

\* a RegisterManager that overwrites the entry of a name already present
RegisterManagerReplace(name, manager) ==
    /\ pc = "idle"
    /\ changes < MaxChanges
    /\ changes' = changes + 1
    /\ managers' = [n \in DOMAIN managers \cup {name} |->
                      IF n = name THEN manager ELSE managers[n]]
    /\ Finish("RegisterManager", [NoArg EXCEPT !.name = name], <<>>, Nil)
    /\ held' = HeldAfter(managers')
    /\ UNCHANGED <<processState, lockState, ctxState, available, backendState, invoked, probed>>

\* ManagerFactory.RegisterManager
RegisterManager(name, manager) ==
    /\ pc = "idle"
    /\ changes < MaxChanges
    /\ changes' = changes + 1
    /\ IF name \in DOMAIN managers
       THEN /\ managers' = managers
            /\ Finish("RegisterManager", [NoArg EXCEPT !.name = name], <<>>,
                      ErrAlreadyRegistered(name))
       ELSE /\ managers' = [n \in DOMAIN managers \cup {name} |->
                              IF n = name THEN manager ELSE managers[n]]
            /\ Finish("RegisterManager", [NoArg EXCEPT !.name = name], <<>>, Nil)
    /\ held' = HeldAfter(managers')
    /\ UNCHANGED <<processState, lockState, ctxState, available, backendState, invoked, probed>>

\* ManagerFactory.UnregisterManager
UnregisterManager(name) ==
    /\ pc = "idle"
    /\ changes < MaxChanges
    /\ changes' = changes + 1
    /\ IF name \notin DOMAIN managers
       THEN /\ managers' = managers
            /\ Finish("UnregisterManager", [NoArg EXCEPT !.name = name], <<>>,
                      ErrNotFound(name))
       ELSE /\ managers' = [n \in DOMAIN managers \ {name} |-> managers[n]]
            /\ Finish("UnregisterManager", [NoArg EXCEPT !.name = name], <<>>, Nil)
    /\ held' = HeldAfter(managers')
    /\ UNCHANGED <<processState, lockState, ctxState, available, backendState, invoked, probed>>

\* ---------------------------------------------------------------- backends
\* core.PackageManager as the services see it: each operator is the set of
\* outcomes one call can have.

\* core.ErrManagerNotAvailable
ErrManagerNotAvailable == "package manager not available"
\* core.ErrProjectNotFound
ErrProjectNotFound == [kind |-> "ErrProjectNotFound"]

\* PackageManager.GetCacheInfo: every backend stamps its own name
BackendGetCacheInfo(b) ==
    {[value |-> <<[Manager |-> b, Size |-> cache[b]]>>, err |-> Nil],
     [value |-> <<>>, err |-> BackendError(b, "get cache path")]}

\* PackageManager.ClearCache: [err, cache]; a failed call may have removed
\* part of the cache
BackendClearCache(b) ==
    {[err |-> Nil, cache |-> [cache EXCEPT ![b] = 0]]}
    \cup {[err |-> BackendError(b, "clear cache"), cache |-> [cache EXCEPT ![b] = c]] :
            c \in 0..cache[b]}

\* PackageManager.GetConfig
BackendGetConfig(b) ==
    {[value |-> <<[Manager |-> b, Registry |-> registryCfg[b], Proxy |-> proxyCfg[b]]>>,
      err |-> Nil],
     [value |-> <<>>, err |-> BackendError(b, "get config")]}

\* a SetRegistry that can succeed on every backend
BackendSetRegistryAnyBackend(b, url) ==
    {[err |-> BackendError(b, "set registry"), registryCfg |-> registryCfg],
     [err |-> Nil, registryCfg |-> [registryCfg EXCEPT ![b] = url]]}

\* PackageManager.SetRegistry: [err, registryCfg]; BunManager.SetRegistry
\* always fails
BackendSetRegistry(b, url) ==
    {[err |-> BackendError(b, "set registry"), registryCfg |-> registryCfg]}
    \cup IF b = "bun" THEN {}
         ELSE {[err |-> Nil, registryCfg |-> [registryCfg EXCEPT ![b] = url]]}

\* PackageManager.SetProxy: [err, proxyCfg]; BunManager.SetProxy always fails
BackendSetProxy(b, url) ==
    {[err |-> BackendError(b, "set proxy"), proxyCfg |-> proxyCfg]}
    \cup IF b = "bun" THEN {}
         ELSE {[err |-> Nil, proxyCfg |-> [proxyCfg EXCEPT ![b] = url]]}

PackageNames == {"a", "b"}

Package(name, b, global) ==
    [Name |-> name, Version |-> "1", Manager |-> b, IsGlobal |-> global]

\* the package lists a backend can report: the dependencies and then the
\* dev dependencies, so one name can come twice
PackageLists(b, global) ==
    UNION {{[i \in 1..k |-> Package(names[i], b, global)] :
                names \in [1..k -> PackageNames]} : k \in 0..MaxPkgs}

\* PackageManager.GetInstalledPackages
BackendGetInstalledPackages(b) ==
    {[value |-> l, err |-> Nil] : l \in PackageLists(b, FALSE)}
    \cup {[value |-> <<>>, err |-> ErrProjectNotFound],
          [value |-> <<>>, err |-> BackendError(b, "read package.json")]}

\* PackageManager.GetGlobalPackages; BunManager.GetGlobalPackages returns an
\* empty list
BackendGetGlobalPackages(b) ==
    IF b = "bun" THEN {[value |-> <<>>, err |-> Nil]}
    ELSE {[value |-> l, err |-> Nil] : l \in PackageLists(b, TRUE)}
         \cup {[value |-> <<>>, err |-> BackendError(b, "list global packages")]}

\* ---------------------------------------------- single-backend service calls

\* CacheService.GetCacheInfo
GetCacheInfo(managerName) ==
    /\ pc = "idle"
    /\ LET a == [NoArg EXCEPT !.name = managerName]
           g == GetManager(managerName)
       IN  IF g.err # Nil
           THEN /\ Finish("GetCacheInfo", a, <<>>, g.err)
                /\ UNCHANGED <<invoked, probed>>
           ELSE /\ probed' = Bump(probed, g.manager[1])
                /\ IF ~IsAvailable(g.manager[1])
                     THEN /\ Finish("GetCacheInfo", a, <<>>,
                                    NewManagerError(managerName, "get cache info",
                                                    ErrManagerNotAvailable))
                          /\ UNCHANGED invoked
                     ELSE \E r \in BackendGetCacheInfo(g.manager[1]) :
                            /\ invoked' = Called(invoked, g.manager[1], r.err)
                            /\ Finish("GetCacheInfo", a, r.value, r.err)
    /\ UNCHANGED <<otherState, managers, available, backendState, changes>>

\* CacheService.ClearCache
ClearCache(managerName) ==
    /\ pc = "idle"
    /\ changes < MaxChanges
    /\ changes' = changes + 1
    /\ LET a == [NoArg EXCEPT !.name = managerName]
           g == GetManager(managerName)
       IN  IF g.err # Nil
           THEN /\ Finish("ClearCache", a, <<>>, g.err)
                /\ UNCHANGED <<invoked, probed, cache>>
           ELSE /\ probed' = Bump(probed, g.manager[1])
                /\ IF ~IsAvailable(g.manager[1])
                     THEN /\ Finish("ClearCache", a, <<>>,
                                    NewManagerError(managerName, "clear cache",
                                                    ErrManagerNotAvailable))
                          /\ UNCHANGED <<invoked, cache>>
                     ELSE \E r \in BackendClearCache(g.manager[1]) :
                            /\ invoked' = Called(invoked, g.manager[1], r.err)
                            /\ cache' = r.cache
                            /\ Finish("ClearCache", a, <<>>, r.err)
    /\ UNCHANGED <<otherState, managers, available, registryCfg, proxyCfg>>

\* PackageService.GetPackagesByManager
GetPackagesByManager(managerName, projectPath) ==
    /\ pc = "idle"
    /\ LET a == [NoArg EXCEPT !.name = managerName, !.path = projectPath]
           g == GetManager(managerName)
       IN  IF g.err # Nil
           THEN /\ Finish("GetPackagesByManager", a, <<>>, g.err)
                /\ UNCHANGED <<invoked, probed>>
           ELSE /\ probed' = Bump(probed, g.manager[1])
                /\ IF ~IsAvailable(g.manager[1])
                     THEN /\ Finish("GetPackagesByManager", a, <<>>,
                                    NewManagerError(managerName, "get packages",
                                                    ErrManagerNotAvailable))
                          /\ UNCHANGED invoked
                     ELSE \E r \in BackendGetInstalledPackages(g.manager[1]) :
                            /\ invoked' = Called(invoked, g.manager[1], r.err)
                            /\ Finish("GetPackagesByManager", a, r.value, r.err)
    /\ UNCHANGED <<otherState, managers, available, backendState, changes>>

\* PackageService.GetGlobalPackagesByManager
GetGlobalPackagesByManager(managerName) ==
    /\ pc = "idle"
    /\ LET a == [NoArg EXCEPT !.name = managerName]
           g == GetManager(managerName)
       IN  IF g.err # Nil
           THEN /\ Finish("GetGlobalPackagesByManager", a, <<>>, g.err)
                /\ UNCHANGED <<invoked, probed>>
           ELSE /\ probed' = Bump(probed, g.manager[1])
                /\ IF ~IsAvailable(g.manager[1])
                     THEN /\ Finish("GetGlobalPackagesByManager", a, <<>>,
                                    NewManagerError(managerName, "get global packages",
                                                    ErrManagerNotAvailable))
                          /\ UNCHANGED invoked
                     ELSE \E r \in BackendGetGlobalPackages(g.manager[1]) :
                            /\ invoked' = Called(invoked, g.manager[1], r.err)
                            /\ Finish("GetGlobalPackagesByManager", a, r.value, r.err)
    /\ UNCHANGED <<otherState, managers, available, backendState, changes>>

\* a GetConfig that wraps the backend's error in an error of its own
GetConfigWrapping(managerName) ==
    /\ pc = "idle"
    /\ LET a == [NoArg EXCEPT !.name = managerName]
           g == GetManager(managerName)
       IN  IF g.err # Nil
           THEN /\ Finish("GetConfig", a, <<>>, g.err)
                /\ UNCHANGED <<invoked, probed>>
           ELSE /\ probed' = Bump(probed, g.manager[1])
                /\ IF ~IsAvailable(g.manager[1])
                     THEN /\ Finish("GetConfig", a, <<>>,
                                    NewManagerError(managerName, "get config",
                                                    ErrManagerNotAvailable))
                          /\ UNCHANGED invoked
                     ELSE \E r \in BackendGetConfig(g.manager[1]) :
                            /\ invoked' = Called(invoked, g.manager[1], r.err)
                            /\ Finish("GetConfig", a, r.value,
                                      IF r.err = Nil THEN Nil
                                      ELSE TaskError(managerName, r.err))
    /\ UNCHANGED <<otherState, managers, available, backendState, changes>>

\* ConfigService.GetConfig
GetConfig(managerName) ==
    /\ pc = "idle"
    /\ LET a == [NoArg EXCEPT !.name = managerName]
           g == GetManager(managerName)
       IN  IF g.err # Nil
           THEN /\ Finish("GetConfig", a, <<>>, g.err)
                /\ UNCHANGED <<invoked, probed>>
           ELSE /\ probed' = Bump(probed, g.manager[1])
                /\ IF ~IsAvailable(g.manager[1])
                     THEN /\ Finish("GetConfig", a, <<>>,
                                    NewManagerError(managerName, "get config",
                                                    ErrManagerNotAvailable))
                          /\ UNCHANGED invoked
                     ELSE \E r \in BackendGetConfig(g.manager[1]) :
                            /\ invoked' = Called(invoked, g.manager[1], r.err)
                            /\ Finish("GetConfig", a, r.value, r.err)
    /\ UNCHANGED <<otherState, managers, available, backendState, changes>>

\* a SetRegistry that resolves and probes the backend before it looks at the
\* URL: the order InvalidURLTouchesNothing must tell apart from the real one
SetRegistryLookupFirst(managerName, registryURL) ==
    /\ pc = "idle"
    /\ changes < MaxChanges
    /\ changes' = changes + 1
    /\ LET a == [NoArg EXCEPT !.name = managerName, !.url = registryURL]
           v == ValidateRegistryURL(registryURL)
           g == GetManager(managerName)
       IN  IF g.err # Nil
           THEN /\ Finish("SetRegistry", a, <<>>, g.err)
                /\ UNCHANGED <<invoked, probed, registryCfg>>
           ELSE /\ probed' = Bump(probed, g.manager[1])
                /\ IF ~IsAvailable(g.manager[1])
                     THEN /\ Finish("SetRegistry", a, <<>>,
                                    NewManagerError(managerName, "set registry",
                                                    ErrManagerNotAvailable))
                          /\ UNCHANGED <<invoked, registryCfg>>
                     ELSE IF v # Nil
                     THEN /\ Finish("SetRegistry", a, <<>>, v)
                          /\ UNCHANGED <<invoked, registryCfg>>
                     ELSE \E r \in BackendSetRegistry(g.manager[1], registryURL) :
                            /\ invoked' = Called(invoked, g.manager[1], r.err)
                            /\ registryCfg' = r.registryCfg
                            /\ Finish("SetRegistry", a, <<>>, r.err)
    /\ UNCHANGED <<otherState, managers, available, cache, proxyCfg>>

\* ConfigService.SetRegistry
SetRegistry(managerName, registryURL) ==
    /\ pc = "idle"
    /\ changes < MaxChanges
    /\ changes' = changes + 1
    /\ LET a == [NoArg EXCEPT !.name = managerName, !.url = registryURL]
           v == ValidateRegistryURL(registryURL)
           g == GetManager(managerName)
       IN  IF v # Nil
           THEN /\ Finish("SetRegistry", a, <<>>, v)
                /\ UNCHANGED <<invoked, probed, registryCfg>>
           ELSE IF g.err # Nil
           THEN /\ Finish("SetRegistry", a, <<>>, g.err)
                /\ UNCHANGED <<invoked, probed, registryCfg>>
           ELSE /\ probed' = Bump(probed, g.manager[1])
                /\ IF ~IsAvailable(g.manager[1])
                     THEN /\ Finish("SetRegistry", a, <<>>,
                                    NewManagerError(managerName, "set registry",
                                                    ErrManagerNotAvailable))
                          /\ UNCHANGED <<invoked, registryCfg>>
                     ELSE \E r \in BackendSetRegistry(g.manager[1], registryURL) :
                            /\ invoked' = Called(invoked, g.manager[1], r.err)
                            /\ registryCfg' = r.registryCfg
                            /\ Finish("SetRegistry", a, <<>>, r.err)
    /\ UNCHANGED <<otherState, managers, available, cache, proxyCfg>>

\* ConfigService.SetProxy
SetProxy(managerName, proxyURL) ==
    /\ pc = "idle"
    /\ changes < MaxChanges
    /\ changes' = changes + 1
    /\ LET a == [NoArg EXCEPT !.name = managerName, !.url = proxyURL]
           v == IF proxyURL # <<>> THEN ValidateProxyURL(proxyURL) ELSE Nil
           g == GetManager(managerName)
       IN  IF v # Nil
           THEN /\ Finish("SetProxy", a, <<>>, v)
                /\ UNCHANGED <<invoked, probed, proxyCfg>>
           ELSE IF g.err # Nil
           THEN /\ Finish("SetProxy", a, <<>>, g.err)
                /\ UNCHANGED <<invoked, probed, proxyCfg>>
           ELSE /\ probed' = Bump(probed, g.manager[1])
                /\ IF ~IsAvailable(g.manager[1])
                     THEN /\ Finish("SetProxy", a, <<>>,
                                    NewManagerError(managerName, "set proxy",
                                                    ErrManagerNotAvailable))
                          /\ UNCHANGED <<invoked, proxyCfg>>
                     ELSE \E r \in BackendSetProxy(g.manager[1], proxyURL) :
                            /\ invoked' = Called(invoked, g.manager[1], r.err)
                            /\ proxyCfg' = r.proxyCfg
                            /\ Finish("SetProxy", a, <<>>, r.err)
    /\ UNCHANGED <<otherState, managers, available, cache, registryCfg>>

\* ConfigService.ValidateRegistryURL called directly
CallValidateRegistryURL(registryURL) ==
    /\ pc = "idle"
    /\ Finish("ValidateRegistryURL", [NoArg EXCEPT !.url = registryURL], <<>>,
              ValidateRegistryURL(registryURL))
    /\ UNCHANGED <<otherState, managers, available, backendState, changes, invoked, probed>>

\* ConfigService.ValidateProxyURL called directly
CallValidateProxyURL(proxyURL) ==
    /\ pc = "idle"
    /\ Finish("ValidateProxyURL", [NoArg EXCEPT !.url = proxyURL], <<>>,
              ValidateProxyURL(proxyURL))
    /\ UNCHANGED <<otherState, managers, available, backendState, changes, invoked, probed>>

\* the environment installs or removes a backend's executable; availability
\* is read only when a call starts, so changes are taken between calls
ChangeAvailability(b) ==
    /\ pc = "idle"
    /\ changes < MaxChanges
    /\ changes' = changes + 1
    /\ available' = [available EXCEPT ![b] = ~@]
    /\ UNCHANGED <<otherState, managers, backendState, pc, op, arg, fanoutState,
                   invoked, probed, result, err>>

\* ------------------------------------------------------- merge and sort

\* one round of insertion sort: x moves left past every element of the
\* sorted slice front that it is less than
insertLast(front, x) ==
    LET keep == Cardinality({i \in 1..Len(front) : ~(x.k < front[i].k)})
    IN  SubSeq(front, 1, keep) \o <<x>> \o SubSeq(front, keep + 1, Len(front))

RECURSIVE insertionSort(_)
\* sort.Slice on a slice of at most 12 elements (Go 1.21 pdqsort falls back to
\* insertion sort): data is a sequence of [k, v], ordered by k. The sorted
\* front is bound as a value, so that it is computed once a round.
insertionSort(data) ==
    IF Len(data) <= 1 THEN data
    ELSE CHOOSE sorted \in
            {insertLast(front, data[Len(data)]) :
                front \in {insertionSort(d) : d \in {SubSeq(data, 1, Len(data) - 1)}}} :
            TRUE

\* the slice elements, each with the rank of the string it is ordered by
ByManager(s) == [i \in 1..Len(s) |-> [k |-> Rank(s[i].Manager), v |-> s[i]]]
ByName(s) == [i \in 1..Len(s) |-> [k |-> Rank(s[i].Name), v |-> s[i]]]
ByPath(s) == [i \in 1..Len(s) |-> [k |-> Rank(s[i].Path), v |-> s[i]]]
Unkeyed(data) == [i \in 1..Len(data) |-> data[i].v]

\* the slice left in arrival order
unsorted(s) == s

\* sort.Slice(..., [i].Manager < [j].Manager)
sortByManager(s) == Unkeyed(insertionSort(ByManager(s)))
\* sort.Slice(uniquePackages, [i].Name < [j].Name)
sortByName(s) == Unkeyed(insertionSort(ByName(s)))
\* sort.Slice(mergedProjects, [i].Path < [j].Path)
sortByPath(s) == Unkeyed(insertionSort(ByPath(s)))

\* fmt.Sprintf("%s@%s:%s", pkg.Name, pkg.Version, pkg.Manager)
packageKey(pkg) == pkg.Name \o "@" \o pkg.Version \o ":" \o pkg.Manager

RECURSIVE removeDuplicatesFrom(_, _, _, _)
removeDuplicatesFrom(packages, i, seen, unique) ==
    IF i > Len(packages) THEN unique
    ELSE IF packageKey(packages[i]) \in seen
         THEN removeDuplicatesFrom(packages, i + 1, seen, unique)
         ELSE removeDuplicatesFrom(packages, i + 1,
                                   seen \cup {packageKey(packages[i])},
                                   Append(unique, packages[i]))

\* every record kept, repeated or not
keepDuplicatePackages(packages) == packages

\* PackageService.removeDuplicatePackages
removeDuplicatePackages(packages) == removeDuplicatesFrom(packages, 1, {}, <<>>)

\* the first reporter's manager list kept as it is
keepExistingManagers(existingManagers, projectManagers, j) == existingManagers

RECURSIVE mergeManagers(_, _, _)
\* the inner loops of mergeProjects: append each manager not yet listed
mergeManagers(existingManagers, projectManagers, j) ==
    IF j > Len(projectManagers) THEN existingManagers
    ELSE mergeManagers(
            IF projectManagers[j] \in Range(existingManagers) THEN existingManagers
            ELSE Append(existingManagers, projectManagers[j]),
            projectManagers, j + 1)

\* an iteration that takes the lock file of every report that has one
mergeOneLastLock(projectMap, project) ==
    IF project.Path \in DOMAIN projectMap
    THEN LET existing == projectMap[project.Path] IN
         [projectMap EXCEPT ![project.Path] =
            [existing EXCEPT
                !.Managers = mergeManagers(existing.Managers, project.Managers, 1),
                !.LockFile = IF project.LockFile # ""
                             THEN project.LockFile ELSE existing.LockFile]]
    ELSE [p \in DOMAIN projectMap \cup {project.Path} |->
            IF p = project.Path THEN project ELSE projectMap[p]]

\* one iteration of the loop of mergeProjects over projectMap
mergeOne(projectMap, project) ==
    IF project.Path \in DOMAIN projectMap
    THEN LET existing == projectMap[project.Path] IN
         [projectMap EXCEPT ![project.Path] =
            [existing EXCEPT
                !.Managers = mergeManagers(existing.Managers, project.Managers, 1),
                !.LockFile = IF existing.LockFile = "" /\ project.LockFile # ""
                             THEN project.LockFile ELSE existing.LockFile]]
    ELSE [p \in DOMAIN projectMap \cup {project.Path} |->
            IF p = project.Path THEN project ELSE projectMap[p]]

RECURSIVE mergeProjectsFrom(_, _, _)
\* the loop of mergeProjects from its i-th round on; the map after a round is
\* bound as a value, so that it is computed once
mergeProjectsFrom(projects, i, projectMap) ==
    IF i > Len(projects) THEN projectMap
    ELSE CHOOSE merged \in
            {mergeProjectsFrom(projects, i + 1, next) :
                next \in {mergeOne(projectMap, projects[i])}} : TRUE

\* "for _, project := range projectMap": the values of a Go map as a slice,
\* in every order the iteration can take
MapValues(m) ==
    LET orders == {f \in [1..Cardinality(DOMAIN m) -> DOMAIN m] :
                     \A p \in DOMAIN m : \E i \in DOMAIN f : f[i] = p}
    IN  {[i \in DOMAIN order |-> m[order[i]]] : order \in orders}

\* ProjectService.mergeProjects: the slices it can return
mergeProjects(projects) ==
    UNION {MapValues(projectMap) :
              projectMap \in {mergeProjectsFrom(projects, 1, EmptyMap)}}

\* --------------------------------------------------- project discovery

\* the lock file each built-in GetProjects looks for
LockName(b) ==
    CASE b = "npm" -> "package-lock.json"
      [] b = "pnpm" -> "pnpm-lock.yaml"
      [] b = "yarn" -> "yarn.lock"
      [] b = "bun" -> "bun.lockb"

\* NPMManager.GetProjects reports every manifest, with or without its lock
\* file; the others report the directories holding their lock file
LockFiles(b, path) ==
    {path \o "/" \o LockName(b)} \cup IF b = "npm" THEN {""} ELSE {}

Project(b, path, lockFile) ==
    [Name |-> path, Path |-> path, Managers |-> <<b>>, LockFile |-> lockFile]

\* filepath.Walk visits in lexical order: the directories a backend reports,
\* ascending, each once
Walk(dirs) ==
    CHOOSE w \in [1..Cardinality(dirs) -> dirs] :
        \A i, j \in DOMAIN w : i < j => StringLess(w[i], w[j])

\* the project lists a backend can report
ProjectLists(b) ==
    UNION {{[i \in DOMAIN Walk(dirs) |-> Project(b, Walk(dirs)[i], lock[Walk(dirs)[i]])] :
                lock \in {f \in [dirs -> UNION {LockFiles(b, p) : p \in dirs}] :
                             \A p \in dirs : f[p] \in LockFiles(b, p)}} :
           dirs \in SUBSET ProjectPaths}

\* PackageManager.GetProjects
BackendGetProjects(b) ==
    {[value |-> l, err |-> Nil] : l \in ProjectLists(b)}
    \cup {[value |-> <<>>, err |-> BackendError(b, "scan projects")]}

\* ------------------------------------------------------------- fan-out reads

\* GetAvailableManagers and the loop that starts one goroutine per entry
Fork(opName, a) ==
    /\ availableManagers' = GetAvailableManagers
    /\ probed' = ProbeAll
    /\ pending' = DOMAIN GetAvailableManagers
    /\ pc' = "fanout"
    /\ op' = opName
    /\ arg' = a
    /\ UNCHANGED <<acc, errors, successCount, invoked, result, err>>

\* a goroutine of a read fan-out: the backend answered r
Collect(name, r) ==
    /\ name \notin hung
    /\ invoked' = Called(invoked, availableManagers[name], r.err)
    /\ pending' = pending \ {name}
    /\ IF r.err # Nil
       THEN /\ errors' = Append(errors, TaskError(name, r.err))
            /\ UNCHANGED acc
       ELSE /\ acc' = acc \o r.value
            /\ UNCHANGED errors
    /\ UNCHANGED <<otherState, pc, op, arg, availableManagers, successCount, probed, result, err,
                   managers, available, backendState, changes>>

\* a join that fails the call when any goroutine recorded an error
JoinedFailing(value, e) ==
    /\ pc = "fanout"
    /\ pending = {}
    /\ pc' = "done"
    /\ result' = IF Len(errors) > 0 THEN <<>> ELSE value
    /\ err' = IF Len(errors) > 0 THEN CombinedError(errors) ELSE e
    /\ UNCHANGED <<otherState, op, arg, availableManagers, pending, acc, errors, successCount,
                   invoked, probed, managers, available, backendState, changes>>

\* a join that does not wait for the goroutines
JoinedEarly(value, e) ==
    /\ pc = "fanout"
    /\ pc' = "done"
    /\ result' = value
    /\ err' = e
    /\ UNCHANGED <<otherState, op, arg, availableManagers, pending, acc, errors, successCount,
                   invoked, probed, managers, available, backendState, changes>>

\* wg.Wait returned; the call returns value and e
Joined(value, e) ==
    /\ pc = "fanout"
    /\ pending = {}
    /\ pc' = "done"
    /\ result' = value
    /\ err' = e
    /\ UNCHANGED <<otherState, op, arg, availableManagers, pending, acc, errors, successCount,
                   invoked, probed, managers, available, backendState, changes>>

\* the backend call of the goroutine started for name never returns, so the
\* goroutine never reaches its wg.Done()
TaskHang(name) ==
    /\ pc = "fanout"
    /\ name \in pending \ hung
    /\ hung' = hung \cup {name}
    /\ UNCHANGED <<processState, held, lockState, ctxDone, managers, available, backendState,
                   changes, pc, op, arg, fanoutState, invoked, probed, result, err>>

\* the context the caller passed is cancelled, or its deadline passes, while
\* the goroutines run
Cancel ==
    /\ pc = "fanout"
    /\ ~ctxDone
    /\ ctxDone' = TRUE
    /\ UNCHANGED <<processState, held, lockState, hung, managers, available, backendState,
                   changes, pc, op, arg, fanoutState, invoked, probed, result, err>>

\* CacheService.GetAllCacheInfo
GetAllCacheInfo ==
    /\ pc = "idle"
    /\ Fork("GetAllCacheInfo", NoArg)
    /\ UNCHANGED <<otherState, managers, available, backendState, changes>>

\* a goroutine that looks its backend up in the registry when it runs
GetAllCacheInfoTaskLive(name) ==
    /\ pc = "fanout" /\ op = "GetAllCacheInfo" /\ name \in pending
    /\ IF name \in DOMAIN managers /\ IsAvailable(managers[name])
       THEN \E r \in BackendGetCacheInfo(managers[name]) : Collect(name, r)
       ELSE /\ name \notin hung
            /\ pending' = pending \ {name}
            /\ UNCHANGED <<otherState, pc, op, arg, availableManagers, acc, errors,
                           successCount, invoked, probed, result, err, managers,
                           available, backendState, changes>>

GetAllCacheInfoTask(name) ==
    /\ pc = "fanout" /\ op = "GetAllCacheInfo" /\ name \in pending
    /\ \E r \in BackendGetCacheInfo(availableManagers[name]) : Collect(name, r)

GetAllCacheInfoJoin ==
    /\ op = "GetAllCacheInfo"
    /\ Joined(sortByManager(acc), Nil)

\* a total that keeps only the size of the last record
lastSizeOnly(cacheInfos) ==
    IF Len(cacheInfos) = 0 THEN 0 ELSE cacheInfos[Len(cacheInfos)].Size

RECURSIVE totalSizeFrom(_, _, _)
\* "for _, info := range cacheInfos { totalSize += info.Size }"
totalSizeFrom(cacheInfos, i, totalSize) ==
    IF i > Len(cacheInfos) THEN totalSize
    ELSE totalSizeFrom(cacheInfos, i + 1, totalSize + cacheInfos[i].Size)

totalSizeOf(cacheInfos) == totalSizeFrom(cacheInfos, 1, 0)

\* CacheService.GetTotalCacheSize
GetTotalCacheSize ==
    /\ pc = "idle"
    /\ Fork("GetTotalCacheSize", NoArg)
    /\ UNCHANGED <<otherState, managers, available, backendState, changes>>

GetTotalCacheSizeTask(name) ==
    /\ pc = "fanout" /\ op = "GetTotalCacheSize" /\ name \in pending
    /\ \E r \in BackendGetCacheInfo(availableManagers[name]) : Collect(name, r)

GetTotalCacheSizeJoin ==
    /\ op = "GetTotalCacheSize"
    /\ Joined(totalSizeOf(sortByManager(acc)), Nil)

\* &CacheStats{}: the sizes, the count and the largest cache
NoStats == [TotalSize |-> 0, ManagerCount |-> 0, LargestCacheSize |-> 0,
            LargestCacheManager |-> ""]

RECURSIVE statsFrom(_, _, _)
\* the loop of CacheService.GetCacheStats
statsFrom(cacheInfos, i, stats) ==
    IF i > Len(cacheInfos) THEN stats
    ELSE LET info == cacheInfos[i]
             larger == info.Size > stats.LargestCacheSize
         IN  statsFrom(cacheInfos, i + 1,
                 [TotalSize |-> stats.TotalSize + info.Size,
                  ManagerCount |-> stats.ManagerCount + 1,
                  LargestCacheSize |-> IF larger THEN info.Size
                                       ELSE stats.LargestCacheSize,
                  LargestCacheManager |-> IF larger THEN info.Manager
                                          ELSE stats.LargestCacheManager])

\* CacheService.GetCacheStats, given what GetAllCacheInfo returned
cacheStats(cacheInfos) == statsFrom(cacheInfos, 1, NoStats)

\* CacheService.GetCacheSummary; it runs GetCacheStats, whose GetAllCacheInfo
\* fans out, and then asks the factory for the available names once more.
\* AvailableManagers is a slice in map iteration order, kept as its set.
GetCacheSummary ==
    /\ pc = "idle"
    /\ Fork("GetCacheSummary", NoArg)
    /\ UNCHANGED <<otherState, managers, available, backendState, changes>>

GetCacheSummaryTask(name) ==
    /\ pc = "fanout" /\ op = "GetCacheSummary" /\ name \in pending
    /\ \E r \in BackendGetCacheInfo(availableManagers[name]) : Collect(name, r)

GetCacheSummaryJoin ==
    /\ pc = "fanout"
    /\ op = "GetCacheSummary"
    /\ pending = {}
    /\ pc' = "done"
    /\ LET stats == cacheStats(sortByManager(acc)) IN
       result' = [TotalSize |-> stats.TotalSize,
                  ManagerCount |-> stats.ManagerCount,
                  LargestCacheManager |-> stats.LargestCacheManager,
                  LargestCacheSize |-> stats.LargestCacheSize,
                  AvailableManagers |-> DOMAIN GetAvailableManagers]
    /\ err' = Nil
    /\ probed' = [b \in Backends |-> probed[b] + ProbeAll[b]]
    /\ UNCHANGED <<otherState, op, arg, availableManagers, pending, acc, errors,
                   successCount, invoked, managers, available, backendState, changes>>

\* ConfigService.GetAllConfigs
GetAllConfigs ==
    /\ pc = "idle"
    /\ Fork("GetAllConfigs", NoArg)
    /\ UNCHANGED <<otherState, managers, available, backendState, changes>>

GetAllConfigsTask(name) ==
    /\ pc = "fanout" /\ op = "GetAllConfigs" /\ name \in pending
    /\ \E r \in BackendGetConfig(availableManagers[name]) : Collect(name, r)

GetAllConfigsJoin ==
    /\ op = "GetAllConfigs"
    /\ Joined(sortByManager(acc), Nil)

\* &ConfigSummary{} with its three empty maps
NoConfigSummary == [ManagerCount |-> 0, Managers |-> EmptyMap,
                    Registries |-> EmptyMap, Proxies |-> EmptyMap]

\* a grouping that keeps only the last manager of each group
GroupedLast(groups, key, manager) ==
    IF key = <<>> THEN groups
    ELSE [k \in DOMAIN groups \cup {key} |->
            IF k = key THEN <<manager>> ELSE groups[k]]

\* "if key != "" { groups[key] = append(groups[key], manager) }"
Grouped(groups, key, manager) ==
    IF key = <<>> THEN groups
    ELSE [k \in DOMAIN groups \cup {key} |->
            IF k = key
            THEN Append(IF k \in DOMAIN groups THEN groups[k] ELSE <<>>, manager)
            ELSE groups[k]]

RECURSIVE configSummaryFrom(_, _, _)
\* the loop of ConfigService.GetConfigSummary
configSummaryFrom(configs, i, summary) ==
    IF i > Len(configs) THEN summary
    ELSE LET config == configs[i] IN
         configSummaryFrom(configs, i + 1,
             [ManagerCount |-> summary.ManagerCount + 1,
              Managers |-> [k \in DOMAIN summary.Managers \cup {config.Manager} |->
                              IF k = config.Manager
                              THEN [Registry |-> config.Registry, Proxy |-> config.Proxy]
                              ELSE summary.Managers[k]],
              Registries |-> Grouped(summary.Registries, config.Registry, config.Manager),
              Proxies |-> Grouped(summary.Proxies, config.Proxy, config.Manager)])

\* ConfigService.GetConfigSummary
GetConfigSummary ==
    /\ pc = "idle"
    /\ Fork("GetConfigSummary", NoArg)
    /\ UNCHANGED <<otherState, managers, available, backendState, changes>>

GetConfigSummaryTask(name) ==
    /\ pc = "fanout" /\ op = "GetConfigSummary" /\ name \in pending
    /\ \E r \in BackendGetConfig(availableManagers[name]) : Collect(name, r)

GetConfigSummaryJoin ==
    /\ op = "GetConfigSummary"
    /\ Joined(configSummaryFrom(sortByManager(acc), 1, NoConfigSummary), Nil)

\* PackageService.GetAllPackages
GetAllPackages(projectPath) ==
    /\ pc = "idle"
    /\ LET a == [NoArg EXCEPT !.path = projectPath] IN
       IF projectPath = ""
       THEN /\ Finish("GetAllPackages", a, <<>>,
                      NewValidationError("projectPath", projectPath,
                                         "project path cannot be empty"))
            /\ UNCHANGED <<invoked, probed>>
       ELSE Fork("GetAllPackages", a)
    /\ UNCHANGED <<otherState, managers, available, backendState, changes>>

\* a goroutine that records ErrProjectNotFound like any other failure
GetAllPackagesTaskStrict(name) ==
    /\ pc = "fanout" /\ op = "GetAllPackages" /\ name \in pending
    /\ \E r \in BackendGetInstalledPackages(availableManagers[name]) :
          /\ Len(acc) + Len(r.value) <= MaxPkgs
          /\ Collect(name, r)

GetAllPackagesTask(name) ==
    /\ pc = "fanout" /\ op = "GetAllPackages" /\ name \in pending
    /\ \E r \in BackendGetInstalledPackages(availableManagers[name]) :
          /\ Len(acc) + Len(r.value) <= MaxPkgs
          /\ IF r.err = ErrProjectNotFound
             THEN \* not an error for this manager: nothing is recorded
                  /\ name \notin hung
                  /\ invoked' = Called(invoked, availableManagers[name], r.err)
                  /\ pending' = pending \ {name}
                  /\ UNCHANGED <<otherState, pc, op, arg, availableManagers, acc, errors,
                                 successCount, probed, result, err, managers, available,
                                 backendState, changes>>
             ELSE Collect(name, r)

GetAllPackagesJoin ==
    /\ op = "GetAllPackages"
    /\ Joined(sortByName(removeDuplicatePackages(acc)), Nil)

\* PackageService.GetGlobalPackages
GetGlobalPackages ==
    /\ pc = "idle"
    /\ Fork("GetGlobalPackages", NoArg)
    /\ UNCHANGED <<otherState, managers, available, backendState, changes>>

GetGlobalPackagesTask(name) ==
    /\ pc = "fanout" /\ op = "GetGlobalPackages" /\ name \in pending
    /\ \E r \in BackendGetGlobalPackages(availableManagers[name]) :
          /\ Len(acc) + Len(r.value) <= MaxPkgs
          /\ Collect(name, r)

GetGlobalPackagesJoin ==
    /\ op = "GetGlobalPackages"
    /\ Joined(sortByName(removeDuplicatePackages(acc)), Nil)

\* core.ErrPackageNotFound
ErrPackageNotFound == [kind |-> "ErrPackageNotFound"]

\* the loop of PackageService.GetPackageInfo: the first package of the list
\* with the name, as a PackageDetail
findPackage(globalPackages, packageName) ==
    LET hits == {i \in 1..Len(globalPackages) : globalPackages[i].Name = packageName}
    IN  IF hits = {}
        THEN [value |-> <<>>, err |-> ErrPackageNotFound]
        ELSE [value |-> [Package |-> globalPackages[CHOOSE i \in hits :
                                                      \A j \in hits : i <= j]],
              err |-> Nil]

\* PackageService.GetPackageInfo
GetPackageInfo(packageName) ==
    /\ pc = "idle"
    /\ LET a == [NoArg EXCEPT !.name = packageName] IN
       IF packageName = ""
       THEN /\ Finish("GetPackageInfo", a, <<>>,
                      NewValidationError("packageName", packageName,
                                         "package name cannot be empty"))
            /\ UNCHANGED <<invoked, probed>>
       ELSE Fork("GetPackageInfo", a)
    /\ UNCHANGED <<otherState, managers, available, backendState, changes>>

GetPackageInfoTask(name) ==
    /\ pc = "fanout" /\ op = "GetPackageInfo" /\ name \in pending
    /\ \E r \in BackendGetGlobalPackages(availableManagers[name]) :
          /\ Len(acc) + Len(r.value) <= MaxPkgs
          /\ Collect(name, r)

GetPackageInfoJoin ==
    /\ op = "GetPackageInfo"
    /\ LET found == findPackage(sortByName(removeDuplicatePackages(acc)), arg.name)
       IN  Joined(found.value, found.err)

\* &PackageStats{ByManager: make(map[string]int)}
NoPackageStats == [TotalPackages |-> 0, LocalPackages |-> 0, GlobalPackages |-> 0,
                   ByManager |-> EmptyMap]

\* stats.ByManager[pkg.Manager]++
Counted(byManager, manager) ==
    [k \in DOMAIN byManager \cup {manager} |->
        IF k = manager
        THEN (IF k \in DOMAIN byManager THEN byManager[k] ELSE 0) + 1
        ELSE byManager[k]]

\* statistics that count a package in the total but as neither local nor
\* global
RECURSIVE packageStatsAllGlobal(_, _, _)
packageStatsAllGlobal(packages, i, stats) ==
    IF i > Len(packages) THEN stats
    ELSE packageStatsAllGlobal(packages, i + 1,
             [TotalPackages |-> stats.TotalPackages + 1,
              LocalPackages |-> stats.LocalPackages,
              GlobalPackages |-> stats.GlobalPackages,
              ByManager |-> Counted(stats.ByManager, packages[i].Manager)])

RECURSIVE packageStatsFrom(_, _, _)
\* the loop of PackageService.GetPackageStats
packageStatsFrom(packages, i, stats) ==
    IF i > Len(packages) THEN stats
    ELSE LET pkg == packages[i] IN
         packageStatsFrom(packages, i + 1,
             [TotalPackages |-> stats.TotalPackages + 1,
              LocalPackages |-> stats.LocalPackages + (IF pkg.IsGlobal THEN 0 ELSE 1),
              GlobalPackages |-> stats.GlobalPackages + (IF pkg.IsGlobal THEN 1 ELSE 0),
              ByManager |-> Counted(stats.ByManager, pkg.Manager)])

RECURSIVE globalPackageStatsFrom(_, _, _)
\* the loop of PackageService.GetGlobalPackageStats
globalPackageStatsFrom(packages, i, stats) ==
    IF i > Len(packages) THEN stats
    ELSE globalPackageStatsFrom(packages, i + 1,
             [TotalPackages |-> stats.TotalPackages + 1,
              LocalPackages |-> stats.LocalPackages,
              GlobalPackages |-> stats.GlobalPackages + 1,
              ByManager |-> Counted(stats.ByManager, packages[i].Manager)])

\* PackageService.GetPackageStats
GetPackageStats(projectPath) ==
    /\ pc = "idle"
    /\ LET a == [NoArg EXCEPT !.path = projectPath] IN
       IF projectPath = ""
       THEN /\ Finish("GetPackageStats", a, <<>>,
                      NewValidationError("projectPath", projectPath,
                                         "project path cannot be empty"))
            /\ UNCHANGED <<invoked, probed>>
       ELSE Fork("GetPackageStats", a)
    /\ UNCHANGED <<otherState, managers, available, backendState, changes>>

GetPackageStatsTask(name) ==
    /\ pc = "fanout" /\ op = "GetPackageStats" /\ name \in pending
    /\ \E r \in BackendGetInstalledPackages(availableManagers[name]) :
          /\ Len(acc) + Len(r.value) <= MaxPkgs
          /\ IF r.err = ErrProjectNotFound
             THEN /\ name \notin hung
                  /\ invoked' = Called(invoked, availableManagers[name], r.err)
                  /\ pending' = pending \ {name}
                  /\ UNCHANGED <<otherState, pc, op, arg, availableManagers, acc, errors,
                                 successCount, probed, result, err, managers, available,
                                 backendState, changes>>
             ELSE Collect(name, r)

GetPackageStatsJoin ==
    /\ op = "GetPackageStats"
    /\ Joined(packageStatsFrom(sortByName(removeDuplicatePackages(acc)), 1,
                                NoPackageStats), Nil)

\* PackageService.GetGlobalPackageStats
GetGlobalPackageStats ==
    /\ pc = "idle"
    /\ Fork("GetGlobalPackageStats", NoArg)
    /\ UNCHANGED <<otherState, managers, available, backendState, changes>>

GetGlobalPackageStatsTask(name) ==
    /\ pc = "fanout" /\ op = "GetGlobalPackageStats" /\ name \in pending
    /\ \E r \in BackendGetGlobalPackages(availableManagers[name]) :
          /\ Len(acc) + Len(r.value) <= MaxPkgs
          /\ Collect(name, r)

GetGlobalPackageStatsJoin ==
    /\ op = "GetGlobalPackageStats"
    /\ Joined(globalPackageStatsFrom(sortByName(removeDuplicatePackages(acc)), 1,
                                      NoPackageStats), Nil)

\* the dependency maps a package.json can hold: name to version
VersionRanges == {"1", "2"}
DependencyMaps == UNION {[names -> VersionRanges] : names \in SUBSET PackageNames}

\* what readPackageJson finds at projectPath/package.json
Manifests ==
    [Name : {"app"}, Version : {"1"},
     Dependencies : DependencyMaps, DevDependencies : DependencyMaps]

\* the orders in which "range" can visit the keys of a map
Orderings(keys) ==
    {f \in [1..Cardinality(keys) -> keys] :
        \A i, j \in 1..Cardinality(keys) : f[i] = f[j] => i = j}

\* a dev dependency entered without its flag
unflaggedDependency(name, version) ==
    [Name |-> name, Version |-> version, DevDependency |-> FALSE, Depth |-> 1,
     Dependencies |-> <<>>]

\* the node appended for an entry of packageJson.Dependencies
directDependency(name, version) ==
    [Name |-> name, Version |-> version, DevDependency |-> FALSE, Depth |-> 1,
     Dependencies |-> <<>>]

\* the node appended for an entry of packageJson.DevDependencies
devDependency(name, version) ==
    [Name |-> name, Version |-> version, DevDependency |-> TRUE, Depth |-> 1,
     Dependencies |-> <<>>]

\* the trees GetProjectDependencies can build from packageJson, one per
\* iteration order of the two maps
DependencyTrees(packageJson) ==
    {[Name |-> packageJson.Name, Version |-> packageJson.Version,
      DevDependency |-> FALSE, Depth |-> 0,
      Dependencies |->
          [i \in 1..Len(direct) |->
              directDependency(direct[i], packageJson.Dependencies[direct[i]])]
          \o [i \in 1..Len(dev) |->
              devDependency(dev[i], packageJson.DevDependencies[dev[i]])]] :
        direct \in Orderings(DOMAIN packageJson.Dependencies),
        dev \in Orderings(DOMAIN packageJson.DevDependencies)}

\* what projectPath/package.json is on disk
ManifestKinds == {"missing", "unreadable", "json"}

\* ProjectService.GetProjectDependencies; the manifest it read is kept with
\* the arguments of the call
GetProjectDependencies(projectPath) ==
    /\ pc = "idle"
    /\ LET a == [NoArg EXCEPT !.path = projectPath] IN
       IF projectPath = ""
       THEN Finish("GetProjectDependencies", a, <<>>,
                   NewValidationError("projectPath", projectPath,
                                      "project path cannot be empty"))
       ELSE \E kind \in ManifestKinds :
              CASE kind = "missing" ->
                     Finish("GetProjectDependencies", a, <<>>, ErrProjectNotFound)
                [] kind = "unreadable" ->
                     Finish("GetProjectDependencies", a, <<>>,
                            [kind |-> "ReadError", path |-> projectPath])
                [] kind = "json" ->
                     \E packageJson \in Manifests :
                       \E root \in DependencyTrees(packageJson) :
                          Finish("GetProjectDependencies",
                                 [a EXCEPT !.name = packageJson], root, Nil)
    /\ UNCHANGED <<otherState, invoked, probed, managers, available, backendState,
                   changes>>

\* what the root path given to ScanProjects is on disk
RootKinds == {"unexpandable", "missing", "file", "dir"}

\* a ScanProjects that takes its snapshot of available backends before it
\* looks at the path
ScanProjectsProbeFirst(rootPath) ==
    /\ pc = "idle"
    /\ LET a == [NoArg EXCEPT !.path = rootPath] IN
       IF rootPath = ""
       THEN /\ Finish("ScanProjects", a, <<>>,
                      NewValidationError("rootPath", rootPath, "root path cannot be empty"))
            /\ probed' = ProbeAll /\ UNCHANGED invoked
       ELSE \E kind \in RootKinds :
              CASE kind = "unexpandable" ->
                     /\ Finish("ScanProjects", a, <<>>,
                               [kind |-> "ExpandError", path |-> rootPath])
                     /\ probed' = ProbeAll /\ UNCHANGED invoked
                [] kind = "missing" ->
                     /\ Finish("ScanProjects", a, <<>>,
                               NewValidationError("rootPath", rootPath,
                                                  "path does not exist"))
                     /\ probed' = ProbeAll /\ UNCHANGED invoked
                [] kind = "file" ->
                     /\ Finish("ScanProjects", a, <<>>,
                               NewValidationError("rootPath", rootPath,
                                                  "path is not a directory"))
                     /\ probed' = ProbeAll /\ UNCHANGED invoked
                [] kind = "dir" ->
                     Fork("ScanProjects", a)
    /\ UNCHANGED <<otherState, managers, available, backendState, changes>>

\* ProjectService.ScanProjects
ScanProjects(rootPath) ==
    /\ pc = "idle"
    /\ LET a == [NoArg EXCEPT !.path = rootPath] IN
       IF rootPath = ""
       THEN /\ Finish("ScanProjects", a, <<>>,
                      NewValidationError("rootPath", rootPath, "root path cannot be empty"))
            /\ UNCHANGED <<invoked, probed>>
       ELSE \E kind \in RootKinds :
              CASE kind = "unexpandable" ->
                     /\ Finish("ScanProjects", a, <<>>,
                               [kind |-> "ExpandError", path |-> rootPath])
                     /\ UNCHANGED <<invoked, probed>>
                [] kind = "missing" ->
                     /\ Finish("ScanProjects", a, <<>>,
                               NewValidationError("rootPath", rootPath,
                                                  "path does not exist"))
                     /\ UNCHANGED <<invoked, probed>>
                [] kind = "file" ->
                     /\ Finish("ScanProjects", a, <<>>,
                               NewValidationError("rootPath", rootPath,
                                                  "path is not a directory"))
                     /\ UNCHANGED <<invoked, probed>>
                [] kind = "dir" ->
                     Fork("ScanProjects", a)
    /\ UNCHANGED <<otherState, managers, available, backendState, changes>>

ScanProjectsTask(name) ==
    /\ pc = "fanout" /\ op = "ScanProjects" /\ name \in pending
    /\ \E r \in BackendGetProjects(availableManagers[name]) : Collect(name, r)

ScanProjectsJoin ==
    /\ op = "ScanProjects"
    /\ \E mergedProjects \in mergeProjects(acc) :
          Joined(sortByPath(mergedProjects), Nil)

\* ------------------------------------------------------------ fan-out writes

\* a write fan-out that gives up at the first failure: the goroutines still
\* pending never call their backend
TallyAbort(name, e) ==
    /\ invoked' = Called(invoked, availableManagers[name], e)
    /\ IF e # Nil
       THEN /\ pending' = {}
            /\ errors' = Append(errors, TaskError(name, e))
            /\ UNCHANGED successCount
       ELSE /\ pending' = pending \ {name}
            /\ successCount' = successCount + 1
            /\ UNCHANGED errors
    /\ UNCHANGED <<otherState, pc, op, arg, availableManagers, acc, probed, result, err,
                   managers, available, changes>>

\* a goroutine of a write fan-out: the backend call returned e
Tally(name, e) ==
    /\ invoked' = Called(invoked, availableManagers[name], e)
    /\ pending' = pending \ {name}
    /\ IF e # Nil
       THEN /\ errors' = Append(errors, TaskError(name, e))
            /\ UNCHANGED successCount
       ELSE /\ successCount' = successCount + 1
            /\ UNCHANGED errors
    /\ UNCHANGED <<otherState, pc, op, arg, availableManagers, acc, probed, result, err,
                   managers, available, changes>>

\* only the first failure reported
firstErrorOnly(errs) == IF Len(errs) > 0 THEN CombinedError(<<errs[1]>>) ELSE Nil

\* "Return error if any ... failed"
combinedError(errs) == IF Len(errs) > 0 THEN CombinedError(errs) ELSE Nil

\* CacheService.ClearAllCaches
ClearAllCaches ==
    /\ pc = "idle"
    /\ changes < MaxChanges
    /\ changes' = changes + 1
    /\ Fork("ClearAllCaches", NoArg)
    /\ UNCHANGED <<otherState, managers, available, backendState>>

ClearAllCachesTask(name) ==
    /\ pc = "fanout" /\ op = "ClearAllCaches" /\ name \in pending
    /\ \E r \in BackendClearCache(availableManagers[name]) :
          /\ cache' = r.cache
          /\ Tally(name, r.err)
    /\ UNCHANGED <<registryCfg, proxyCfg>>

\* a join that restores the caches it cleared when another backend failed
ClearAllCachesRollback ==
    /\ op = "ClearAllCaches"
    /\ pc = "fanout"
    /\ pending = {}
    /\ pc' = "done"
    /\ result' = <<>>
    /\ err' = IF Len(errors) > 0 THEN CombinedError(errors) ELSE Nil
    /\ cache' = IF Len(errors) = 0 THEN cache
                ELSE [b \in Backends |->
                        IF invoked[b] = <<TRUE>> THEN MaxCacheSize ELSE cache[b]]
    /\ UNCHANGED <<otherState, op, arg, availableManagers, pending, acc, errors, successCount,
                   invoked, probed, managers, available, registryCfg, proxyCfg,
                   changes>>

ClearAllCachesJoin ==
    /\ op = "ClearAllCaches"
    /\ Joined(<<>>, combinedError(errors))

\* ConfigService.SetRegistryForAll
SetRegistryForAll(registryURL) ==
    /\ pc = "idle"
    /\ changes < MaxChanges
    /\ changes' = changes + 1
    /\ LET a == [NoArg EXCEPT !.url = registryURL]
           v == ValidateRegistryURL(registryURL)
       IN  IF v # Nil
           THEN /\ Finish("SetRegistryForAll", a, <<>>, v)
                /\ UNCHANGED <<invoked, probed>>
           ELSE Fork("SetRegistryForAll", a)
    /\ UNCHANGED <<otherState, managers, available, backendState>>

SetRegistryForAllTask(name) ==
    /\ pc = "fanout" /\ op = "SetRegistryForAll" /\ name \in pending
    /\ \E r \in BackendSetRegistry(availableManagers[name], arg.url) :
          /\ registryCfg' = r.registryCfg
          /\ Tally(name, r.err)
    /\ UNCHANGED <<cache, proxyCfg>>

SetRegistryForAllJoin ==
    /\ op = "SetRegistryForAll"
    /\ Joined(<<>>, combinedError(errors))

\* ConfigService.SetProxyForAll
SetProxyForAll(proxyURL) ==
    /\ pc = "idle"
    /\ changes < MaxChanges
    /\ changes' = changes + 1
    /\ LET a == [NoArg EXCEPT !.url = proxyURL]
           v == IF proxyURL # <<>> THEN ValidateProxyURL(proxyURL) ELSE Nil
       IN  IF v # Nil
           THEN /\ Finish("SetProxyForAll", a, <<>>, v)
                /\ UNCHANGED <<invoked, probed>>
           ELSE Fork("SetProxyForAll", a)
    /\ UNCHANGED <<otherState, managers, available, backendState>>

SetProxyForAllTask(name) ==
    /\ pc = "fanout" /\ op = "SetProxyForAll" /\ name \in pending
    /\ \E r \in BackendSetProxy(availableManagers[name], arg.url) :
          /\ proxyCfg' = r.proxyCfg
          /\ Tally(name, r.err)
    /\ UNCHANGED <<cache, registryCfg>>

SetProxyForAllJoin ==
    /\ op = "SetProxyForAll"
    /\ Joined(<<>>, combinedError(errors))

\* ------------------------------------------------- the registry's lock
\* The registry methods as goroutines run them: f.mu.RLock() or f.mu.Lock(),
\* the body, and the deferred unlock at the return.

\* a registry in which every method takes the read lock
ReadLockOnly(opName) == "RLock"

\* the lock call each method opens with
LockKind(opName) ==
    IF opName \in {"RegisterManager", "UnregisterManager"} THEN "Lock" ELSE "RLock"

\* goroutine t calls a registry method and reaches its lock call; a Lock call
\* announces the writer, which holds back readers that arrive later
Enter(t, opName, name, manager) ==
    /\ threads[t].pc = "idle"
    /\ LockKind(opName) = "Lock" => changes < MaxChanges
    /\ changes' = IF LockKind(opName) = "Lock" THEN changes + 1 ELSE changes
    /\ threads' = [threads EXCEPT ![t] = [Resting EXCEPT !.pc = "locking",
                                          !.op = opName, !.name = name,
                                          !.manager = manager]]
    /\ mu' = IF LockKind(opName) = "Lock"
             THEN [mu EXCEPT !.waiting = @ \cup {t}] ELSE mu
    /\ UNCHANGED <<processState, held, ctxState, managers, available, backendState, pc, op, arg,
                   fanoutState, invoked, probed, result, err>>

\* sync.RWMutex grants the lock goroutine t waits for
Acquire(t) ==
    /\ threads[t].pc = "locking"
    /\ IF LockKind(threads[t].op) = "Lock"
       THEN /\ mu.readers = {} /\ mu.writer = {}
            /\ mu' = [mu EXCEPT !.writer = {t}, !.waiting = @ \ {t}]
       ELSE /\ mu.writer = {} /\ mu.waiting = {}
            /\ mu' = [mu EXCEPT !.readers = @ \cup {t}]
    /\ threads' = [threads EXCEPT ![t].pc = "critical",
                                  ![t].todo = IF threads[t].op = "GetAvailableManagers"
                                              THEN DOMAIN managers ELSE {}]
    /\ UNCHANGED <<processState, held, ctxState, managers, available, backendState, changes, pc,
                   op, arg, fanoutState, invoked, probed, result, err>>

\* one round of the loop of GetAvailableManagers: manager.IsAvailable(ctx)
\* answers for the next name of the map, in the map's iteration order, and
\* the loop goes on; what the answers add up to is GetAvailableManagers above
Probe(t) ==
    /\ threads[t].pc = "critical"
    /\ threads[t].op = "GetAvailableManagers"
    /\ \E n \in threads[t].todo :
          threads' = [threads EXCEPT ![t].todo = @ \ {n}]
    /\ UNCHANGED <<processState, held, mu, ctxState, managers, available, backendState, changes,
                   pc, op, arg, fanoutState, invoked, probed, result, err>>

\* one round of the loop in which manager.IsAvailable(ctx) never returns
ProbeHang(t) ==
    /\ threads[t].pc = "critical"
    /\ threads[t].op = "GetAvailableManagers"
    /\ threads[t].todo # {}
    /\ threads' = [threads EXCEPT ![t].pc = "hung"]
    /\ UNCHANGED <<processState, held, mu, ctxState, managers, available, backendState, changes,
                   pc, op, arg, fanoutState, invoked, probed, result, err>>

\* the registry map after the body of goroutine t's method
BodyOf(t) ==
    LET name == threads[t].name IN
    IF threads[t].op = "RegisterManager" /\ name \notin DOMAIN managers
    THEN [n \in DOMAIN managers \cup {name} |->
            IF n = name THEN threads[t].manager ELSE managers[n]]
    ELSE IF threads[t].op = "UnregisterManager" /\ name \in DOMAIN managers
    THEN [n \in DOMAIN managers \ {name} |-> managers[n]]
    ELSE managers

\* goroutine t runs the rest of its method and returns, the deferred unlock
\* releasing the lock it holds
Leave(t) ==
    /\ threads[t].pc = "critical"
    /\ threads[t].todo = {}
    /\ managers' = BodyOf(t)
    /\ held' = HeldAfter(managers')
    /\ mu' = IF LockKind(threads[t].op) = "Lock"
             THEN [mu EXCEPT !.writer = @ \ {t}]
             ELSE [mu EXCEPT !.readers = @ \ {t}]
    /\ threads' = [threads EXCEPT ![t] = Resting]
    /\ UNCHANGED <<processState, ctxState, available, backendState, changes, pc, op, arg,
                   fanoutState, invoked, probed, result, err>>

\* the context goroutine t passed to its method is cancelled or times out
CancelThread(t) ==
    /\ threads[t].pc # "idle"
    /\ threads[t].op = "GetAvailableManagers"
    /\ ~threads[t].ctxDone
    /\ threads' = [threads EXCEPT ![t].ctxDone = TRUE]
    /\ UNCHANGED <<processState, held, mu, ctxState, managers, available, backendState, changes,
                   pc, op, arg, fanoutState, invoked, probed, result, err>>

\* ------------------------------------------------- the global factory
\* GetGlobalFactory as goroutines run it: factoryOnce.Do(func) and the return
\* of globalFactory. sync.Once.Do reads done, and when it is not set takes the
\* mutex, reads done again, runs the function and sets done.

\* the goroutines that call GetGlobalFactory
OnceCallers == {"t1", "t2", "t3"}

\* NPMManager.Name, PNPMManager.Name, YarnManager.Name, BunManager.Name
Name(b) ==
    CASE b = "npm" -> "npm"
      [] b = "pnpm" -> "pnpm"
      [] b = "yarn" -> "yarn"
      [] b = "bun" -> "bun"

\* the process before the first GetGlobalFactory call
InitOnce ==
    /\ managers = EmptyMap
    /\ available = [b \in Backends |-> TRUE]
    /\ cache = [b \in Backends |-> MaxCacheSize]
    /\ registryCfg = [b \in Backends |-> URLDefault]
    /\ proxyCfg = [b \in Backends |-> <<>>]
    /\ changes = 0
    /\ pc = "idle"
    /\ op = "none"
    /\ arg = NoArg
    /\ availableManagers = EmptyMap
    /\ pending = {}
    /\ acc = <<>>
    /\ errors = <<>>
    /\ successCount = 0
    /\ invoked = NoInvocations
    /\ probed = NoCalls
    /\ result = <<>>
    /\ err = Nil
    /\ held = [shared |-> FALSE, map |-> EmptyMap]
    /\ mu = Unlocked
    /\ threads = [t \in OnceCallers |-> Resting]
    /\ ctxDone = FALSE
    /\ hung = {}
    /\ factoryOnce = [done |-> FALSE, holder |-> "none"]
    /\ globalFactory = 0
    /\ constructions = 0
    /\ procs = {}
    /\ disk = NoFiles

\* what the steps of GetGlobalFactory leave alone
onceFrame == <<available, backendState, changes, pc, op, arg, fanoutState, invoked,
               probed, result, err, held, mu, ctxState, procs, disk>>

\* a Once that never remembers that it ran
OnceNeverDone == FALSE

\* o.done.Load() != 0
OnceDone == factoryOnce.done

\* goroutine t calls GetGlobalFactory
CallGetGlobalFactory(t) ==
    /\ threads[t].pc = "idle"
    /\ threads' = [threads EXCEPT ![t].pc = "once", ![t].op = "GetGlobalFactory",
                                  ![t].got = 0]
    /\ UNCHANGED <<onceFrame, managers, factoryOnce, globalFactory, constructions>>

\* Once.Do: the first read of done
OnceCheck(t) ==
    /\ threads[t].pc = "once"
    /\ threads' = [threads EXCEPT ![t].pc = IF OnceDone THEN "return" ELSE "slow"]
    /\ UNCHANGED <<onceFrame, managers, factoryOnce, globalFactory, constructions>>

\* Once.doSlow: o.m.Lock()
OnceLock(t) ==
    /\ threads[t].pc = "slow"
    /\ factoryOnce.holder = "none"
    /\ factoryOnce' = [factoryOnce EXCEPT !.holder = t]
    /\ threads' = [threads EXCEPT ![t].pc = "locked"]
    /\ UNCHANGED <<onceFrame, managers, globalFactory, constructions>>

\* Once.doSlow finds done set by another goroutine and unlocks
OnceSkip(t) ==
    /\ threads[t].pc = "locked"
    /\ OnceDone
    /\ factoryOnce' = [factoryOnce EXCEPT !.holder = "none"]
    /\ threads' = [threads EXCEPT ![t].pc = "return"]
    /\ UNCHANGED <<onceFrame, managers, globalFactory, constructions>>

\* the function given to Do: globalFactory = NewManagerFactory()
Construct(t) ==
    /\ threads[t].pc = "locked"
    /\ ~OnceDone
    /\ constructions' = constructions + 1
    /\ globalFactory' = constructions + 1
    /\ managers' = registerManagers
    /\ threads' = [threads EXCEPT ![t].pc = "built"]
    /\ UNCHANGED <<onceFrame, factoryOnce>>

\* Once.doSlow: the deferred o.done.Store(1) and o.m.Unlock()
OnceUnlock(t) ==
    /\ threads[t].pc = "built"
    /\ factoryOnce' = [done |-> TRUE, holder |-> "none"]
    /\ threads' = [threads EXCEPT ![t].pc = "return"]
    /\ UNCHANGED <<onceFrame, managers, globalFactory, constructions>>

\* return globalFactory
ReturnGlobalFactory(t) ==
    /\ threads[t].pc = "return"
    /\ threads' = [threads EXCEPT ![t].pc = "idle", ![t].got = globalFactory]
    /\ UNCHANGED <<onceFrame, managers, factoryOnce, globalFactory, constructions>>

\* ------------------------------------------------------- specifications

\* the registry, and the lookups that go through it
NextRegistry ==
    \/ \E n \in ManagerNames : CallGetManager(n)
    \/ \E n \in ManagerNames, b \in Backends : RegisterManager(n, b)
    \/ \E n \in ManagerNames : UnregisterManager(n)
    \/ \E n \in ManagerNames : GetCacheInfo(n)
    \/ \E b \in Backends : ChangeAvailability(b)
    \/ Return

SpecRegistry == Init /\ [][NextRegistry]_vars

\* the registry and a caller that keeps the map GetAllManagers returned
NextSnapshot ==
    \/ CallGetAllManagers
    \/ \E n \in ManagerNames, b \in Backends : CallerPut(n, b)
    \/ \E n \in ManagerNames : CallerDelete(n)
    \/ \E n \in ManagerNames : CallGetManager(n)
    \/ \E n \in ManagerNames, b \in Backends : RegisterManager(n, b)
    \/ \E n \in ManagerNames : UnregisterManager(n)
    \/ Return

SpecSnapshot == Init /\ [][NextSnapshot]_vars

\* the names the goroutines look up, register and unregister
LockNames == {"npm", "bogus"}

\* goroutines calling the registry at the same time
ThreadStep(t) ==
    \/ Acquire(t)
    \/ Probe(t)
    \/ Leave(t)

NextLock ==
    \/ \E t \in Threads, n \in LockNames : Enter(t, "GetManager", n, "")
    \/ \E t \in Threads : Enter(t, "GetAllManagers", "", "")
    \/ \E t \in Threads : Enter(t, "GetAvailableManagers", "", "")
    \/ \E t \in Threads, n \in LockNames : Enter(t, "RegisterManager", n, "npm")
    \/ \E t \in Threads, n \in LockNames : Enter(t, "UnregisterManager", n, "")
    \/ \E t \in Threads : Acquire(t)
    \/ \E t \in Threads : Probe(t)
    \/ \E t \in Threads : ProbeHang(t)
    \/ \E t \in Threads : Leave(t)
    \/ \E t \in Threads : CancelThread(t)

SpecLock == Init /\ [][NextLock]_vars

\* every goroutine that can take a step takes one; a goroutine need not call
\* again, a context need not be cancelled, a probe need not hang
SpecLockFair == SpecLock /\ \A t \in Threads : WF_vars(ThreadStep(t))

\* aggregate calls whose context may end and whose backend calls may hang
NextCancel ==
    \/ GetAllCacheInfo
    \/ \E n \in ManagerNames : GetAllCacheInfoTask(n)
    \/ GetAllCacheInfoJoin
    \/ \E p \in {"", "/p"} : ScanProjects(p)
    \/ \E n \in ManagerNames : ScanProjectsTask(n)
    \/ ScanProjectsJoin
    \/ \E n \in ManagerNames : TaskHang(n)
    \/ Cancel
    \/ Return

SpecCancel == Init /\ [][NextCancel]_vars

\* every goroutine whose backend call returns goes on to its wg.Done(), and
\* wg.Wait() returns once it can
Progress ==
    \/ \E n \in ManagerNames : GetAllCacheInfoTask(n)
    \/ GetAllCacheInfoJoin
    \/ \E n \in ManagerNames : ScanProjectsTask(n)
    \/ ScanProjectsJoin

SpecCancelFair == SpecCancel /\ WF_vars(Progress)

\* goroutines making the first calls of GetGlobalFactory
NextOnce ==
    \/ \E t \in OnceCallers : CallGetGlobalFactory(t)
    \/ \E t \in OnceCallers : OnceCheck(t)
    \/ \E t \in OnceCallers : OnceLock(t)
    \/ \E t \in OnceCallers : OnceSkip(t)
    \/ \E t \in OnceCallers : Construct(t)
    \/ \E t \in OnceCallers : OnceUnlock(t)
    \/ \E t \in OnceCallers : ReturnGlobalFactory(t)

SpecOnce == InitOnce /\ [][NextOnce]_vars

\* ------------------------------------------------ concurrent aggregate calls

\* two aggregate calls in flight at once, on two services
Calls == {"c1", "c2"}
CallOp(c) == IF c = "c1" THEN "GetAllCacheInfo" ELSE "ClearAllCaches"

\* the locals of an aggregate call: its snapshot, its mutex, its slices and
\* counter, and where each of its goroutines stands
NoCall == [pc |-> "idle", snapshot |-> EmptyMap, task |-> EmptyMap, ok |-> EmptyMap,
           read |-> EmptyMap, mu |-> "", cacheInfos |-> <<>>, errors |-> <<>>,
           clearedCount |-> 0]

InitCalls ==
    /\ managers = [n \in {"npm", "pnpm"} |-> n]
    /\ available = [b \in Backends |-> TRUE]
    /\ cache = [b \in Backends |-> MaxCacheSize]
    /\ registryCfg = [b \in Backends |-> URLDefault]
    /\ proxyCfg = [b \in Backends |-> <<>>]
    /\ changes = 0
    /\ pc = "idle"
    /\ op = "none"
    /\ arg = NoArg
    /\ availableManagers = EmptyMap
    /\ pending = {}
    /\ acc = <<>>
    /\ errors = <<>>
    /\ successCount = 0
    /\ invoked = NoInvocations
    /\ probed = NoCalls
    /\ result = <<>>
    /\ err = Nil
    /\ held = [shared |-> FALSE, map |-> EmptyMap]
    /\ mu = Unlocked
    /\ threads = [c \in Calls |-> NoCall]
    /\ ctxDone = FALSE
    /\ hung = {}
    /\ factoryOnce = [done |-> TRUE, holder |-> "none"]
    /\ globalFactory = 1
    /\ constructions = 1
    /\ procs = {}
    /\ disk = NoFiles

\* what the steps of the concurrent calls leave alone
callsFrame == <<managers, available, registryCfg, proxyCfg, changes, pc, op, arg,
                fanoutState, invoked, probed, result, err, held, mu, ctxState,
                processState>>

\* a mutex that lets every goroutine in
MutexIgnored(c) == TRUE

\* mu.Lock() of call c can go through
MutexFree(c) == threads[c].mu = ""

\* availableManagers := s.factory.GetAvailableManagers(ctx), the locals, and
\* the loop that starts one goroutine per entry
CallStart(c) ==
    /\ threads[c].pc = "idle"
    /\ threads' = [threads EXCEPT ![c] =
          [NoCall EXCEPT !.pc = "fanout",
                         !.snapshot = GetAvailableManagers,
                         !.task = [n \in DOMAIN GetAvailableManagers |-> "run"],
                         !.ok = [n \in DOMAIN GetAvailableManagers |-> FALSE],
                         !.read = [n \in DOMAIN GetAvailableManagers |-> <<>>]]]
    /\ UNCHANGED <<callsFrame, cache>>

\* the goroutine of call c for name calls its backend, outside the mutex
TaskCall(c, name) ==
    /\ threads[c].pc = "fanout"
    /\ name \in DOMAIN threads[c].task
    /\ threads[c].task[name] = "run"
    /\ IF CallOp(c) = "GetAllCacheInfo"
       THEN /\ \E r \in BackendGetCacheInfo(threads[c].snapshot[name]) :
                 threads' = [threads EXCEPT ![c].task[name] = "called",
                                            ![c].ok[name] = (r.err = Nil)]
            /\ UNCHANGED cache
       ELSE \E r \in BackendClearCache(threads[c].snapshot[name]) :
              /\ cache' = r.cache
              /\ threads' = [threads EXCEPT ![c].task[name] = "called",
                                            ![c].ok[name] = (r.err = Nil)]
    /\ UNCHANGED callsFrame

\* mu.Lock()
TaskLock(c, name) ==
    /\ threads[c].pc = "fanout"
    /\ name \in DOMAIN threads[c].task
    /\ threads[c].task[name] = "called"
    /\ MutexFree(c)
    /\ threads' = [threads EXCEPT ![c].task[name] = "locked", ![c].mu = name]
    /\ UNCHANGED <<callsFrame, cache>>

\* the first half of append or ++: the goroutine reads the slice or counter
TaskRead(c, name) ==
    /\ threads[c].pc = "fanout"
    /\ name \in DOMAIN threads[c].task
    /\ threads[c].task[name] = "locked"
    /\ threads' = [threads EXCEPT
          ![c].task[name] = "read",
          ![c].read[name] =
              IF ~threads[c].ok[name] THEN threads[c].errors
              ELSE IF CallOp(c) = "GetAllCacheInfo" THEN threads[c].cacheInfos
              ELSE <<threads[c].clearedCount>>]
    /\ UNCHANGED <<callsFrame, cache>>

\* the second half: it stores what it read with its own element added, then
\* mu.Unlock() and wg.Done(). A record carries the call and goroutine that
\* made it.
TaskWrite(c, name) ==
    /\ threads[c].pc = "fanout"
    /\ name \in DOMAIN threads[c].task
    /\ threads[c].task[name] = "read"
    /\ LET was == threads[c].read[name] IN
       threads' = [threads EXCEPT
          ![c].task[name] = "done",
          ![c].mu = "",
          ![c].errors = IF ~threads[c].ok[name]
                        THEN Append(was, [call |-> c, manager |-> name])
                        ELSE @,
          ![c].cacheInfos = IF threads[c].ok[name] /\ CallOp(c) = "GetAllCacheInfo"
                            THEN Append(was, [call |-> c,
                                              Manager |-> threads[c].snapshot[name]])
                            ELSE @,
          ![c].clearedCount = IF threads[c].ok[name] /\ CallOp(c) = "ClearAllCaches"
                              THEN was[1] + 1
                              ELSE @]
    /\ UNCHANGED <<callsFrame, cache>>

\* wg.Wait() returns and the call reads its locals
CallJoin(c) ==
    /\ threads[c].pc = "fanout"
    /\ \A n \in DOMAIN threads[c].task : threads[c].task[n] = "done"
    /\ threads' = [threads EXCEPT ![c].pc = "done",
                                  ![c].cacheInfos = sortByManager(@)]
    /\ UNCHANGED <<callsFrame, cache>>

\* the call has returned; its locals are gone
CallReturn(c) ==
    /\ threads[c].pc = "done"
    /\ threads' = [threads EXCEPT ![c] = NoCall]
    /\ UNCHANGED <<callsFrame, cache>>

\* a backend comes or goes between the calls' snapshots
CallsChangeAvailability(b) ==
    /\ changes < MaxChanges
    /\ changes' = changes + 1
    /\ available' = [available EXCEPT ![b] = ~@]
    /\ UNCHANGED <<managers, registryCfg, proxyCfg, cache, pc, op, arg, fanoutState,
                   invoked, probed, result, err, held, mu, threads, ctxState,
                   processState>>

\* ------------------------------------------------ projects on disk

\* the files that tell a project: the manifest and the four lock files
FileNames == {"package.json"} \cup {LockName(b) : b \in Backends}

\* filepath.Join(dir, name)
JoinPath(dir, name) == dir \o "/" \o name

\* the order in which detectProjectManagers looks for the lock files
DetectionOrder == <<"npm", "pnpm", "yarn", "bun">>

\* ProjectService.detectProjectManagers, given the files of the directory
detectProjectManagers(files) ==
    LET managersFound == SelectSeq(DetectionOrder, LAMBDA b : LockName(b) \in files)
    IN  IF Len(managersFound) = 0 /\ "package.json" \in files
        THEN <<"npm">>
        ELSE managersFound

RECURSIVE lockFileFrom(_, _, _, _, _)
\* the loop at the end of AnalyzeProject: "break" leaves the switch, not the
\* loop, so every manager whose lock file exists sets analysis.LockFile
lockFileFrom(managersFound, i, lockFile, expandedPath, files) ==
    IF i > Len(managersFound) THEN lockFile
    ELSE lockFileFrom(managersFound, i + 1,
                      IF LockName(managersFound[i]) \in files
                      THEN JoinPath(expandedPath, LockName(managersFound[i]))
                      ELSE lockFile,
                      expandedPath, files)

\* the packages reported to one analysis, at most
MaxAnalysed == 1

\* the paths AnalyzeProject is called with; "/r" does not exist
AnalyzePaths == ProjectPaths \cup {"", "/r"}

\* ProjectService.AnalyzeProject, up to the GetAllPackages it calls
AnalyzeProject(projectPath) ==
    /\ pc = "idle"
    /\ LET a == [NoArg EXCEPT !.path = projectPath] IN
       IF projectPath = ""
       THEN /\ Finish("AnalyzeProject", a, <<>>,
                      NewValidationError("projectPath", projectPath,
                                         "project path cannot be empty"))
            /\ UNCHANGED <<invoked, probed>>
       ELSE IF projectPath \notin DOMAIN disk
       THEN /\ Finish("AnalyzeProject", a, <<>>,
                      NewValidationError("projectPath", projectPath,
                                         "path does not exist"))
            /\ UNCHANGED <<invoked, probed>>
       ELSE IF "package.json" \notin disk[projectPath]
       THEN /\ Finish("AnalyzeProject", a, <<>>, ErrProjectNotFound)
            /\ UNCHANGED <<invoked, probed>>
       ELSE \/ /\ Finish("AnalyzeProject", a, <<>>,
                         [kind |-> "ReadError", path |-> projectPath])
               /\ UNCHANGED <<invoked, probed>>
            \/ Fork("AnalyzeProject", a)
    /\ UNCHANGED <<otherState, managers, available, backendState, changes>>

\* a goroutine of the GetAllPackages that AnalyzeProject calls
AnalyzeProjectTask(name) ==
    /\ pc = "fanout" /\ op = "AnalyzeProject" /\ name \in pending
    /\ \E r \in BackendGetInstalledPackages(availableManagers[name]) :
          /\ Len(acc) + Len(r.value) <= MaxAnalysed
          /\ IF r.err = ErrProjectNotFound
             THEN /\ name \notin hung
                  /\ invoked' = Called(invoked, availableManagers[name], r.err)
                  /\ pending' = pending \ {name}
                  /\ UNCHANGED <<otherState, pc, op, arg, availableManagers, acc, errors,
                                 successCount, probed, result, err, managers, available,
                                 backendState, changes>>
             ELSE Collect(name, r)

\* the rest of AnalyzeProject: the analysis record
AnalyzeProjectJoin ==
    /\ op = "AnalyzeProject"
    /\ LET files == disk[arg.path]
           managersFound == detectProjectManagers(files)
       IN  Joined([Path |-> arg.path,
                   Managers |-> managersFound,
                   PackageCount |-> Len(sortByName(removeDuplicatePackages(acc))),
                   LockFile |-> lockFileFrom(managersFound, 1, "", arg.path, files)],
                  Nil)

\* what GetProjects of backend b finds under a root that holds the
\* directories of disk: NPMManager reports every directory with a manifest,
\* with its package-lock.json if there is one; the others report the
\* directories that hold their lock file next to a manifest
GetProjectsOnDisk(b) ==
    LET dirs == {p \in DOMAIN disk :
                    /\ "package.json" \in disk[p]
                    /\ b = "npm" \/ LockName(b) \in disk[p]}
        walk == Walk(dirs)
    IN  [i \in DOMAIN walk |->
            Project(b, walk[i],
                    IF LockName(b) \in disk[walk[i]]
                    THEN JoinPath(walk[i], LockName(b)) ELSE "")]

\* a goroutine of ScanProjects whose backend walks the disk
ScanDiskTask(name) ==
    /\ pc = "fanout" /\ op = "ScanProjects" /\ name \in pending
    /\ Collect(name, [value |-> GetProjectsOnDisk(availableManagers[name]), err |-> Nil])

\* the disks the project specifications start from: any files in "/p", a
\* manifest or nothing in "/q"
DiskStates ==
    {[p \in ProjectPaths |-> IF p = "/p" THEN files ELSE other] :
        files \in SUBSET FileNames, other \in {{}, {"package.json"}}}

InitDisk ==
    /\ managers = registerManagers
    /\ available = [b \in Backends |-> TRUE]
    /\ cache = [b \in Backends |-> MaxCacheSize]
    /\ registryCfg = [b \in Backends |-> URLDefault]
    /\ proxyCfg = [b \in Backends |-> <<>>]
    /\ changes = 0
    /\ pc = "idle"
    /\ op = "none"
    /\ arg = NoArg
    /\ availableManagers = EmptyMap
    /\ pending = {}
    /\ acc = <<>>
    /\ errors = <<>>
    /\ successCount = 0
    /\ invoked = NoInvocations
    /\ probed = NoCalls
    /\ result = <<>>
    /\ err = Nil
    /\ held = [shared |-> FALSE, map |-> EmptyMap]
    /\ mu = Unlocked
    /\ threads = [t \in Threads |-> Resting]
    /\ ctxDone = FALSE
    /\ hung = {}
    /\ factoryOnce = [done |-> TRUE, holder |-> "none"]
    /\ globalFactory = 1
    /\ constructions = 1
    /\ procs = {}
    /\ disk \in DiskStates

\* ------------------------------------- the registry during an aggregate call
\* Another goroutine's registry calls and the backends' installations are not
\* ordered with the goroutines of a fan-out.

\* ManagerFactory.RegisterManager called by another goroutine while the
\* aggregate call is between its snapshot and its wg.Wait
RegisterManagerDuringCall(name, manager) ==
    /\ pc = "fanout"
    /\ changes < MaxChanges
    /\ changes' = changes + 1
    /\ managers' = IF name \in DOMAIN managers THEN managers
                   ELSE [n \in DOMAIN managers \cup {name} |->
                           IF n = name THEN manager ELSE managers[n]]
    /\ held' = HeldAfter(managers')
    /\ UNCHANGED <<processState, lockState, ctxState, available, backendState, pc, op,
                   arg, fanoutState, invoked, probed, result, err>>

\* ManagerFactory.UnregisterManager called by another goroutine while the
\* aggregate call is between its snapshot and its wg.Wait
UnregisterManagerDuringCall(name) ==
    /\ pc = "fanout"
    /\ changes < MaxChanges
    /\ changes' = changes + 1
    /\ managers' = [n \in DOMAIN managers \ {name} |-> managers[n]]
    /\ held' = HeldAfter(managers')
    /\ UNCHANGED <<processState, lockState, ctxState, available, backendState, pc, op,
                   arg, fanoutState, invoked, probed, result, err>>

\* a backend's executable is installed or removed while the aggregate call is
\* between its snapshot and its wg.Wait
AvailabilityChangesDuringCall(b) ==
    /\ pc = "fanout"
    /\ changes < MaxChanges
    /\ changes' = changes + 1
    /\ available' = [available EXCEPT ![b] = ~@]
    /\ UNCHANGED <<otherState, managers, backendState, pc, op, arg, fanoutState,
                   invoked, probed, result, err>>

\* -------------------------------------------- packages read from package.json
\* GetInstalledPackages takes the keys and the values of the "dependencies"
\* and "devDependencies" objects of package.json as they are written.

\* the keys and the values a package.json can hold
DeclaredNames == {"a", "a@1"}
DeclaredVersions == {"2", "1@2"}
DeclaredMaps == UNION {[names -> DeclaredVersions] : names \in SUBSET DeclaredNames}

\* "for name, version := range ..." appending one core.Package per entry, in
\* the order the map is visited in
packagesOf(b, dependencies, order) ==
    [i \in 1..Len(order) |->
        [Name |-> order[i], Version |-> dependencies[order[i]], Manager |-> b,
         IsGlobal |-> FALSE]]

\* PackageManager.GetInstalledPackages on a project whose package.json is
\* read and parsed: the dependencies and then the dev dependencies
BackendGetDeclaredPackages(b) ==
    UNION {UNION {{[value |-> packagesOf(b, deps, o1) \o packagesOf(b, devDeps, o2),
                     err |-> Nil] :
                        o1 \in Orderings(DOMAIN deps), o2 \in Orderings(DOMAIN devDeps)} :
                    devDeps \in DeclaredMaps} : deps \in DeclaredMaps}

\* the goroutine of GetAllPackages on such a project
GetAllPackagesTaskDeclared(name) ==
    /\ pc = "fanout" /\ op = "GetAllPackages" /\ name \in pending
    /\ \E r \in BackendGetDeclaredPackages(availableManagers[name]) :
          /\ Len(acc) + Len(r.value) <= MaxPkgs
          /\ Collect(name, r)

\* ------------------------------------------------ external processes

\* the operations of core.PackageManager the services call
BackendOperations == {"GetCacheInfo", "ClearCache", "GetInstalledPackages",
                      "GetGlobalPackages", "GetConfig", "SetRegistry", "SetProxy",
                      "GetProjects"}

\* the context the command of a backend operation is started with: "caller"
\* for utils.ExecuteCommand(ctx, ...), "background" for
\* utils.ExecuteCommandWithTimeout, which derives its context from
\* context.Background(), "none" when the operation starts no command
CommandContext(b, operation) ==
    CASE operation = "GetInstalledPackages" ->
             IF b \in {"pnpm", "yarn"} THEN "background" ELSE "none"
      [] operation = "GetProjects" -> "none"
      [] b = "bun" -> "none"
      [] OTHER -> "caller"

\* a service method calls operation on the backends registered as names:
\* every available one in an aggregate method, one in a single-backend
\* method
CallBackends(operation, names) ==
    /\ pc = "idle"
    /\ names # {}
    /\ names \subseteq DOMAIN GetAvailableManagers
    /\ pc' = "fanout"
    /\ op' = operation
    /\ availableManagers' = [n \in names |-> managers[n]]
    /\ pending' = names
    /\ UNCHANGED <<arg, acc, errors, successCount, invoked, probed, result, err,
                   otherState, managers, available, backendState, changes>>

\* the backend operation called for name starts its command; a command
\* given a context that is already done is not started
StartCommand(name) ==
    /\ pc = "fanout"
    /\ name \in pending
    /\ \A p \in procs : p.name # name
    /\ LET with == CommandContext(availableManagers[name], op) IN
       /\ with # "none"
       /\ ~(with = "caller" /\ ctxDone)
       /\ procs' = procs \cup {[name |-> name, operation |-> op, ctx |-> with]}
    /\ UNCHANGED <<fanoutState, pc, op, arg, invoked, probed, result, err, held,
                   lockState, ctxState, factoryOnce, globalFactory, constructions,
                   disk,
                   managers, available, backendState, changes>>

\* the command ends, by itself or at its 30 s timeout, and the backend
\* operation returns
CommandExits(name) ==
    /\ pc = "fanout"
    /\ \E p \in procs :
          /\ p.name = name
          /\ procs' = procs \ {p}
    /\ pending' = pending \ {name}
    /\ invoked' = Called(invoked, availableManagers[name], Nil)
    /\ UNCHANGED <<pc, op, arg, availableManagers, acc, errors, successCount, probed,
                   result, err, held, lockState, ctxState, factoryOnce, globalFactory,
                   constructions, disk, managers, available, backendState, changes>>

\* the backend operation returns without a command: it starts none, its
\* context is done, or GetInstalledPackages finds no package.json
ReturnsWithoutCommand(name) ==
    /\ pc = "fanout"
    /\ name \in pending
    /\ \A p \in procs : p.name # name
    /\ LET with == CommandContext(availableManagers[name], op) IN
          \/ with = "none"
          \/ with = "caller" /\ ctxDone
          \/ op = "GetInstalledPackages"
    /\ pending' = pending \ {name}
    /\ invoked' = Called(invoked, availableManagers[name],
                         IF CommandContext(availableManagers[name], op) = "none"
                         THEN Nil ELSE ErrProjectNotFound)
    /\ UNCHANGED <<pc, op, arg, availableManagers, acc, errors, successCount, probed,
                   result, err, otherState, managers, available, backendState, changes>>

\* the caller's context is cancelled: exec.CommandContext kills the commands
\* started with it, and their backend operations return the error
CancelContext ==
    /\ pc = "fanout"
    /\ ~ctxDone
    /\ ctxDone' = TRUE
    /\ LET killed == {p \in procs : p.ctx = "caller"} IN
       /\ procs' = procs \ killed
       /\ pending' = pending \ {p.name : p \in killed}
    /\ UNCHANGED <<pc, op, arg, availableManagers, acc, errors, successCount, invoked,
                   probed, result, err, held, lockState, hung, factoryOnce,
                   globalFactory, constructions, disk, managers, available, backendState,
                   changes>>

\* every backend operation has returned, and so does the service method
BackendsReturned ==
    /\ pc = "fanout"
    /\ op \in BackendOperations
    /\ Joined(<<>>, Nil)

\* the cache totals, and the ClearCache that changes the sizes
NextCacheStats ==
    \/ GetTotalCacheSize
    \/ \E n \in ManagerNames : GetTotalCacheSizeTask(n)
    \/ GetTotalCacheSizeJoin
    \/ GetCacheSummary
    \/ \E n \in ManagerNames : GetCacheSummaryTask(n)
    \/ GetCacheSummaryJoin
    \/ \E n \in ManagerNames : ClearCache(n)
    \/ \E b \in Backends : ChangeAvailability(b)
    \/ Return

SpecCacheStats == Init /\ [][NextCacheStats]_vars

\* the package lookup by name
NextPackageInfo ==
    \/ \E n \in PackageNames \cup {""} : GetPackageInfo(n)
    \/ \E n \in ManagerNames : GetPackageInfoTask(n)
    \/ GetPackageInfoJoin
    \/ \E b \in Backends : ChangeAvailability(b)
    \/ Return

SpecPackageInfo == Init /\ [][NextPackageInfo]_vars

\* the package statistics
NextPackageStats ==
    \/ \E p \in {"", "/p"} : GetPackageStats(p)
    \/ \E n \in ManagerNames : GetPackageStatsTask(n)
    \/ GetPackageStatsJoin
    \/ GetGlobalPackageStats
    \/ \E n \in ManagerNames : GetGlobalPackageStatsTask(n)
    \/ GetGlobalPackageStatsJoin
    \/ \E b \in Backends : ChangeAvailability(b)
    \/ Return

SpecPackageStats == Init /\ [][NextPackageStats]_vars

\* the configuration summary, and the setters that change what it groups
NextConfigSummary ==
    \/ GetConfigSummary
    \/ \E n \in ManagerNames : GetConfigSummaryTask(n)
    \/ GetConfigSummaryJoin
    \/ \E n \in ManagerNames, u \in RegistryInputs : SetRegistry(n, u)
    \/ \E n \in ManagerNames, u \in ProxyInputs : SetProxy(n, u)
    \/ \E b \in Backends : ChangeAvailability(b)
    \/ Return

SpecConfigSummary == Init /\ [][NextConfigSummary]_vars

\* the dependency tree of a project
NextDependencies ==
    \/ \E p \in {"", "/p"} : GetProjectDependencies(p)
    \/ Return

SpecDependencies == Init /\ [][NextDependencies]_vars

\* the commands the backends run for a call, and its cancellation
NextProcess ==
    \/ \E operation \in BackendOperations :
          \/ CallBackends(operation, DOMAIN GetAvailableManagers)
          \/ \E n \in ManagerNames : CallBackends(operation, {n})
    \/ \E n \in ManagerNames : StartCommand(n)
    \/ \E n \in ManagerNames : CommandExits(n)
    \/ \E n \in ManagerNames : ReturnsWithoutCommand(n)
    \/ CancelContext
    \/ BackendsReturned
    \/ Return

SpecProcess == Init /\ [][NextProcess]_vars

\* two aggregate calls at once
NextCalls ==
    \/ \E c \in Calls : CallStart(c)
    \/ \E c \in Calls, n \in ManagerNames : TaskCall(c, n)
    \/ \E c \in Calls, n \in ManagerNames : TaskLock(c, n)
    \/ \E c \in Calls, n \in ManagerNames : TaskRead(c, n)
    \/ \E c \in Calls, n \in ManagerNames : TaskWrite(c, n)
    \/ \E c \in Calls : CallJoin(c)
    \/ \E c \in Calls : CallReturn(c)
    \/ \E b \in Backends : CallsChangeAvailability(b)

SpecCalls == InitCalls /\ [][NextCalls]_vars

\* the analysis of a project directory
NextAnalyze ==
    \/ \E p \in AnalyzePaths : AnalyzeProject(p)
    \/ \E n \in ManagerNames : AnalyzeProjectTask(n)
    \/ AnalyzeProjectJoin
    \/ Return

SpecAnalyze == InitDisk /\ [][NextAnalyze]_vars

\* the scan of the projects on disk
NextScan ==
    \/ \E p \in {"", "/"} : ScanProjects(p)
    \/ \E n \in ManagerNames : ScanDiskTask(n)
    \/ ScanProjectsJoin
    \/ \E b \in Backends : ChangeAvailability(b)
    \/ Return

SpecScan == InitDisk /\ [][NextScan]_vars

\* an aggregate read while other goroutines change the registry and the
\* backends come and go
NextDuringCall ==
    \/ GetAllCacheInfo
    \/ \E n \in ManagerNames : GetAllCacheInfoTask(n)
    \/ GetAllCacheInfoJoin
    \/ \E n \in ManagerNames, b \in {"npm", "yarn"} : RegisterManagerDuringCall(n, b)
    \/ \E n \in ManagerNames : UnregisterManagerDuringCall(n)
    \/ \E b \in Backends : AvailabilityChangesDuringCall(b)
    \/ Return

SpecDuringCall == Init /\ [][NextDuringCall]_vars

\* GetAllPackages on a project whose package.json the backends can read
NextDeclared ==
    \/ GetAllPackages("/p")
    \/ \E n \in ManagerNames : GetAllPackagesTaskDeclared(n)
    \/ GetAllPackagesJoin
    \/ \E b \in Backends : ChangeAvailability(b)
    \/ Return

SpecDeclared == Init /\ [][NextDeclared]_vars

\* GetCacheSummary while other goroutines change the registry and the
\* backends come and go
NextSummaryDuringCall ==
    \/ GetCacheSummary
    \/ \E n \in ManagerNames : GetCacheSummaryTask(n)
    \/ GetCacheSummaryJoin
    \/ \E n \in ManagerNames, b \in {"npm", "yarn"} : RegisterManagerDuringCall(n, b)
    \/ \E n \in ManagerNames : UnregisterManagerDuringCall(n)
    \/ \E b \in Backends : AvailabilityChangesDuringCall(b)
    \/ Return

SpecSummaryDuringCall == Init /\ [][NextSummaryDuringCall]_vars

\* the single-backend service methods
NextSingle ==
    \/ \E n \in ManagerNames : GetCacheInfo(n)
    \/ \E n \in ManagerNames : ClearCache(n)
    \/ \E n \in ManagerNames : GetPackagesByManager(n, "/p")
    \/ \E n \in ManagerNames : GetGlobalPackagesByManager(n)
    \/ \E n \in ManagerNames : GetConfig(n)
    \/ \E n \in ManagerNames, u \in RegistryInputs : SetRegistry(n, u)
    \/ \E n \in ManagerNames, u \in ProxyInputs : SetProxy(n, u)
    \/ \E b \in Backends : ChangeAvailability(b)
    \/ Return

SpecSingle == Init /\ [][NextSingle]_vars

\* the aggregate read methods
NextRead ==
    \/ GetAllCacheInfo
    \/ \E n \in ManagerNames : GetAllCacheInfoTask(n)
    \/ GetAllCacheInfoJoin
    \/ GetAllConfigs
    \/ \E n \in ManagerNames : GetAllConfigsTask(n)
    \/ GetAllConfigsJoin
    \/ \E p \in {"", "/p"} : GetAllPackages(p)
    \/ \E n \in ManagerNames : GetAllPackagesTask(n)
    \/ GetAllPackagesJoin
    \/ GetGlobalPackages
    \/ \E n \in ManagerNames : GetGlobalPackagesTask(n)
    \/ GetGlobalPackagesJoin
    \/ \E p \in {"", "/p"} : ScanProjects(p)
    \/ \E n \in ManagerNames : ScanProjectsTask(n)
    \/ ScanProjectsJoin
    \/ \E b \in Backends : ChangeAvailability(b)
    \/ Return

SpecRead == Init /\ [][NextRead]_vars

\* the aggregate write methods, and the lookup that shows their effect
NextWrite ==
    \/ ClearAllCaches
    \/ \E n \in ManagerNames : ClearAllCachesTask(n)
    \/ ClearAllCachesJoin
    \/ \E u \in RegistryInputs : SetRegistryForAll(u)
    \/ \E n \in ManagerNames : SetRegistryForAllTask(n)
    \/ SetRegistryForAllJoin
    \/ \E u \in ProxyInputs : SetProxyForAll(u)
    \/ \E n \in ManagerNames : SetProxyForAllTask(n)
    \/ SetProxyForAllJoin
    \/ \E n \in ManagerNames : GetCacheInfo(n)
    \/ \E b \in Backends : ChangeAvailability(b)
    \/ Return

SpecWrite == Init /\ [][NextWrite]_vars

\* the four methods that change a backend's configuration
NextSetters ==
    \/ \E n \in ManagerNames, u \in RegistryInputs : SetRegistry(n, u)
    \/ \E n \in ManagerNames, u \in ProxyInputs : SetProxy(n, u)
    \/ \E u \in RegistryInputs : SetRegistryForAll(u)
    \/ \E n \in ManagerNames : SetRegistryForAllTask(n)
    \/ SetRegistryForAllJoin
    \/ \E u \in ProxyInputs : SetProxyForAll(u)
    \/ \E n \in ManagerNames : SetProxyForAllTask(n)
    \/ SetProxyForAllJoin
    \/ \E b \in Backends : ChangeAvailability(b)
    \/ Return

SpecSetters == Init /\ [][NextSetters]_vars

\* the URL validators, applied to every input string
NextValidate ==
    \/ \E u \in URLInputs : CallValidateRegistryURL(u)
    \/ \E u \in URLInputs : CallValidateProxyURL(u)
    \/ Return

SpecValidate == Init /\ [][NextValidate]_vars

\* ------------------------------------------------------------- properties

ReadOps == {"GetAllCacheInfo", "GetAllConfigs", "GetAllPackages",
            "GetGlobalPackages", "ScanProjects"}

SingleOps == {"GetCacheInfo", "ClearCache", "GetPackagesByManager",
              "GetGlobalPackagesByManager", "GetConfig", "SetRegistry", "SetProxy"}

\* the strings keys[1], keys[2], ... are ascending
Ascending(keys) ==
    \A i, j \in 1..Len(keys) : i < j => ~StringLess(keys[j], keys[i])

\* the backends whose operation this call invoked and got an error from
Failed == {b \in Backends : FALSE \in Range(invoked[b])}
\* the backends whose operation this call invoked and got no error from
Succeeded == {b \in Backends : TRUE \in Range(invoked[b])}

\* the registered names of backend b that pass the availability probe
AvailableNames(b) == {n \in DOMAIN managers : managers[n] = b /\ available[b]}

\* a write fan-out has returned, its URL having passed validation
WriteReturned ==
    /\ pc = "done"
    /\ \/ op = "ClearAllCaches"
       \/ op = "SetRegistryForAll" /\ ValidateRegistryURL(arg.url) = Nil
       \/ op = "SetProxyForAll" /\ (arg.url = <<>> \/ ValidateProxyURL(arg.url) = Nil)

\* e is a ManagerError whose cause is core.ErrManagerNotAvailable
IsNotAvailable(e) == e.kind = "ManagerError" /\ e.cause = ErrManagerNotAvailable

\* a single-backend method has returned, called for a registered backend that
\* is not available
UnavailableTarget ==
    /\ pc = "done"
    /\ op \in SingleOps
    /\ arg.name \in DOMAIN managers
    /\ ~available[managers[arg.name]]

\* the URL given to SetRegistry or SetProxy passes that method's validation
URLAccepted ==
    /\ op = "SetRegistry" => ValidateRegistryURL(arg.url) = Nil
    /\ op = "SetProxy" => (arg.url = <<>> \/ ValidateProxyURL(arg.url) = Nil)

\* C1: in every result GetAllPackages or GetGlobalPackages returns, no two
\* entries have the same name, version and manager, whatever the backends
\* reported and in whatever order their tasks finished.
NoDuplicatePackages ==
    (pc = "done" /\ op \in {"GetAllPackages", "GetGlobalPackages"}) =>
        \A i, j \in 1..Len(result) :
            (/\ result[i].Name = result[j].Name
             /\ result[i].Version = result[j].Version
             /\ result[i].Manager = result[j].Manager) => i = j

\* GetAllPackages returned two or more packages from raw output in which a
\* record came twice
RepeatedPackageReturned ==
    /\ pc = "done"
    /\ op = "GetAllPackages"
    /\ \E i, j \in 1..Len(acc) : i < j /\ acc[i] = acc[j]
    /\ Len(result) >= 2

\* C2: every aggregate list result is ascending by its sort key: cache infos
\* and configs by manager name, packages by package name, projects by path.
AggregateResultsSorted ==
    pc = "done" =>
        /\ op \in {"GetAllCacheInfo", "GetAllConfigs"} =>
              Ascending([i \in 1..Len(result) |-> result[i].Manager])
        /\ op \in {"GetAllPackages", "GetGlobalPackages"} =>
              Ascending([i \in 1..Len(result) |-> result[i].Name])
        /\ op = "ScanProjects" =>
              Ascending([i \in 1..Len(result) |-> result[i].Path])

\* GetAllCacheInfo returned three or more records whose tasks had finished
\* out of manager-name order
OutOfOrderArrivalSorted ==
    /\ pc = "done"
    /\ op = "GetAllCacheInfo"
    /\ Len(result) >= 3
    /\ \E i, j \in 1..Len(acc) : i < j /\ StringLess(acc[j].Manager, acc[i].Manager)

\* C3: ScanProjects returns exactly one record for every path some backend
\* reported, and that record's managers are the union of the manager lists
\* reported for the path, each listed once.
ProjectsMerged ==
    (pc = "done" /\ op = "ScanProjects") =>
        /\ {result[i].Path : i \in 1..Len(result)} = {acc[k].Path : k \in 1..Len(acc)}
        /\ \A i, j \in 1..Len(result) : result[i].Path = result[j].Path => i = j
        /\ \A i \in 1..Len(result) :
              /\ Range(result[i].Managers) =
                    UNION {Range(acc[k].Managers) :
                             k \in {x \in 1..Len(acc) : acc[x].Path = result[i].Path}}
              /\ Len(result[i].Managers) = Cardinality(Range(result[i].Managers))

\* ScanProjects returned two paths, one of them reported by three backends
SharedProjectMerged ==
    /\ pc = "done"
    /\ op = "ScanProjects"
    /\ Len(result) = 2
    /\ \E i \in 1..Len(result) : Len(result[i].Managers) >= 3

\* C4: an aggregate read never returns an error because backend calls failed:
\* with any of the available backends failing it returns nil and the merged
\* data of the others; the only errors it returns are raised before any
\* backend is touched.
BackendFailuresAbsorbed ==
    (pc = "done" /\ op \in ReadOps) =>
        /\ Failed # {} => err = Nil
        /\ err # Nil => (invoked = NoInvocations /\ probed = NoCalls)
        /\ (err = Nil /\ op # "ScanProjects") => Range(result) = Range(acc)
        /\ (err = Nil /\ op = "ScanProjects") =>
              {result[i].Path : i \in 1..Len(result)} = {acc[k].Path : k \in 1..Len(acc)}

\* an aggregate read returned data although two backends failed
PartialReadReturned ==
    /\ pc = "done"
    /\ op \in ReadOps
    /\ Cardinality(Failed) >= 2
    /\ Succeeded # {}
    /\ Len(result) >= 1
    /\ err = Nil

\* C5: GetAllCacheInfo returns exactly one record for each registered backend
\* that is available and whose GetCacheInfo succeeded, and no other record;
\* an unavailable backend is left out without error and its GetCacheInfo is
\* never invoked.
CacheInfoPerAvailableBackend ==
    (pc = "done" /\ op = "GetAllCacheInfo") =>
        /\ err = Nil
        /\ \A b \in Backends :
              /\ Cardinality({i \in 1..Len(result) : result[i].Manager = b}) =
                    IF AvailableNames(b) # {} /\ b \in Succeeded THEN 1 ELSE 0
              /\ Len(invoked[b]) = Cardinality(AvailableNames(b))

\* GetAllCacheInfo returned with one backend unavailable, one failing and
\* one answering
MixedCacheInfoReturned ==
    /\ pc = "done"
    /\ op = "GetAllCacheInfo"
    /\ \E b \in Backends : ~available[b]
    /\ Failed # {}
    /\ Len(result) >= 1

\* C6: a write fan-out whose URL is accepted invokes the operation of every
\* available backend exactly once, whichever of them fail.
EveryAvailableBackendInvokedOnce ==
    WriteReturned =>
        \A b \in Backends : Len(invoked[b]) = Cardinality(AvailableNames(b))

\* SetProxyForAll with an empty URL returned after bun failed and another
\* backend succeeded
ProxyClearedDespiteFailure ==
    /\ pc = "done"
    /\ op = "SetProxyForAll"
    /\ arg.url = <<>>
    /\ "bun" \in Failed
    /\ Succeeded # {}
    /\ Cardinality(DOMAIN availableManagers) >= 3

\* C7, as the specification states it: ClearAllCaches, SetRegistryForAll and
\* SetProxyForAll return an error exactly when the operation of some available
\* backend failed, and the error names the failed backends and no other.
ErrorOnlyFromBackendFailures ==
    (pc = "done" /\ op \in {"ClearAllCaches", "SetRegistryForAll", "SetProxyForAll"}) =>
        /\ err # Nil <=> Failed # {}
        /\ err # Nil =>
              /\ err.kind = "Combined"
              /\ {err.errors[i].manager : i \in 1..Len(err.errors)} = Failed

\* C7, as the code has it: the same for the calls whose URL passes validation;
\* a SetRegistryForAll or SetProxyForAll whose URL fails it returns the
\* ValidationError, no backend having been probed or invoked.
CombinedErrorNamesFailures ==
    /\ (pc = "done" /\ op \in {"SetRegistryForAll", "SetProxyForAll"} /\ ~WriteReturned) =>
          /\ err.kind = "ValidationError"
          /\ invoked = NoInvocations
          /\ probed = NoCalls
    /\ WriteReturned =>
          /\ err # Nil <=> Failed # {}
          /\ err # Nil =>
                /\ err.kind = "Combined"
                /\ {err.errors[i].manager : i \in 1..Len(err.errors)} = Failed
                /\ Len(err.errors) = Cardinality(Failed)

\* ClearAllCaches returned an error after two backends failed and one succeeded
TwoFailuresReported ==
    /\ pc = "done"
    /\ op = "ClearAllCaches"
    /\ Cardinality(Failed) = 2
    /\ Succeeded # {}
    /\ err # Nil

\* one step of a behaviour in which nothing is rolled back
NoRollbackStep ==
    \* a cache changes only in its own backend's task
    /\ (pc = "fanout" /\ op = "ClearAllCaches") =>
          \A b \in Backends :
              cache'[b] # cache[b] =>
                  \E n \in pending \ pending' : availableManagers[n] = b
    \* when the call returns, the caches of the backends that succeeded are empty
    /\ (pc = "fanout" /\ op = "ClearAllCaches" /\ pc' = "done") =>
          \A b \in Succeeded : cache'[b] = 0
    \* and they are still what they were when the caller takes the result
    /\ (pc = "done" /\ op = "ClearAllCaches") => cache' = cache
    \* a GetCacheInfo that succeeds reports the cache as it is
    /\ (pc = "idle" /\ op' = "GetCacheInfo" /\ err' = Nil) =>
          result' = <<[Manager |-> managers[arg'.name],
                       Size |-> cache[managers[arg'.name]]]>>

\* C8: no rollback: after a ClearAllCaches in which X succeeded and Y failed,
\* X's cache stays cleared and a later GetCacheInfo for X shows it, Y's cache
\* is as Y's failed call left it, and the aggregator acts on no backend again.
NoRollback == [][NoRollbackStep]_vars

\* the only change so far was a ClearAllCaches that cleared npm and failed on
\* yarn, and GetCacheInfo("npm") now reports the empty cache
ClearedCacheObserved ==
    /\ pc = "done"
    /\ op = "GetCacheInfo"
    /\ changes = 1
    /\ result = <<[Manager |-> "npm", Size |-> 0]>>
    /\ cache["yarn"] > 0

\* C9: for a name that is not registered, GetManager and
\* CacheService.GetCacheInfo return the not-found error, after any Register
\* and Unregister calls, and call no method of any backend.
UnknownNameNotFound ==
    (pc = "done" /\ op \in {"GetManager", "GetCacheInfo"} /\ arg.name \notin DOMAIN managers) =>
        /\ err = ErrNotFound(arg.name)
        /\ result = <<>>
        /\ invoked = NoInvocations
        /\ probed = NoCalls

\* GetCacheInfo("npm") returned after npm was unregistered and another name
\* registered
UnregisteredNameLookedUp ==
    /\ pc = "done"
    /\ op = "GetCacheInfo"
    /\ arg.name = "npm"
    /\ "npm" \notin DOMAIN managers
    /\ "bogus" \in DOMAIN managers

\* C10, as the specification states it: every single-backend method called for
\* a registered backend that is not available fails with ManagerNotAvailable
\* and never invokes the backend's operation.
UnavailableBackendRejected ==
    UnavailableTarget => (IsNotAvailable(err) /\ invoked = NoInvocations)

\* C10, as the code has it: the same, for SetRegistry and SetProxy only when
\* the URL passes validation; with a URL that fails it they return the
\* ValidationError without probing; the operation is invoked in no case.
UnavailableBackendRejectedAfterValidation ==
    UnavailableTarget =>
        /\ invoked = NoInvocations
        /\ URLAccepted => IsNotAvailable(err)
        /\ ~URLAccepted => (err.kind = "ValidationError" /\ probed = NoCalls)

\* SetRegistry with an accepted URL returned ManagerNotAvailable for a backend
\* that is not available
SetRegistryRejectedUnavailable ==
    /\ UnavailableTarget
    /\ op = "SetRegistry"
    /\ arg.url = URLHttpsH
    /\ IsNotAvailable(err)

\* the configuration setters
SetterOps == {"SetRegistry", "SetProxy", "SetRegistryForAll", "SetProxyForAll"}

\* the URL a setter was called with fails the validation of its kind
URLRejected(opName, url) ==
    IF opName \in {"SetRegistry", "SetRegistryForAll"}
    THEN ValidateRegistryURL(url) # Nil
    ELSE ValidateProxyURL(url) # Nil

\* a setter is called with a URL that fails validation
InvalidURLCall ==
    /\ pc = "idle"
    /\ op' \in SetterOps
    /\ URLRejected(op', arg'.url)

\* C11: SetRegistry, SetProxy, SetRegistryForAll or SetProxyForAll called with
\* a URL that fails validation returns ValidationError at once, whether or not
\* the named backend is registered or available: no backend's IsAvailable or
\* setter is invoked and no backend's cache, registry or proxy setting changes.
InvalidURLTouchesNothingStep ==
    InvalidURLCall =>
        /\ pc' = "done"
        /\ err'.kind = "ValidationError"
        /\ invoked' = NoInvocations
        /\ probed' = NoCalls
        /\ UNCHANGED backendState

InvalidURLTouchesNothing == [][InvalidURLTouchesNothingStep]_vars

\* SetRegistry has rejected an invalid URL given for a name that is not
\* registered
InvalidURLForUnknownNameRejected ==
    /\ pc = "done"
    /\ op = "SetRegistry"
    /\ arg.name \notin DOMAIN managers
    /\ URLRejected(op, arg.url)
    /\ err.kind = "ValidationError"

\* rawURL parses as a URL whose scheme is http or https and whose host is not
\* empty
HTTPURLWithHost(rawURL) ==
    LET parsedURL == urlParse(rawURL) IN
    /\ ~parsedURL.err
    /\ parsedURL.Scheme \in {HTTP, HTTPS}
    /\ parsedURL.Host # <<>>

\* C12: ValidateRegistryURL returns nil exactly for the strings that parse as
\* a URL with scheme http or https and a non-empty host, and a ValidationError
\* for every other string, among them the empty string, a bare word, an ftp
\* URL and a host without a scheme; ValidateProxyURL does the same except that
\* it returns nil for the empty string.
ValidatorsFollowRule ==
    /\ (pc = "done" /\ op = "ValidateRegistryURL") =>
          /\ err = Nil <=> HTTPURLWithHost(arg.url)
          /\ err # Nil => err.kind = "ValidationError"
          /\ arg.url \in {<<>>, URLBareWord, URLFtp, URLSchemeless} => err # Nil
    /\ (pc = "done" /\ op = "ValidateProxyURL") =>
          /\ err = Nil <=> (arg.url = <<>> \/ HTTPURLWithHost(arg.url))
          /\ err # Nil => err.kind = "ValidationError"

\* ValidateProxyURL has accepted the empty string
EmptyProxyURLAccepted ==
    /\ pc = "done"
    /\ op = "ValidateProxyURL"
    /\ arg.url = <<>>
    /\ err = Nil

\* C13: RegisterManager with a name already registered returns an error and
\* leaves the registry as it was, the existing backend included;
\* UnregisterManager with a name not registered returns an error and leaves
\* the registry as it was; a successful RegisterManager adds that one name and
\* a successful UnregisterManager removes that one name, every other entry
\* staying as it was.
RegistryNamesUniqueStep ==
    /\ (pc = "idle" /\ op' = "RegisterManager") =>
          IF arg'.name \in DOMAIN managers
          THEN err' = ErrAlreadyRegistered(arg'.name) /\ managers' = managers
          ELSE /\ err' = Nil
               /\ DOMAIN managers' = DOMAIN managers \cup {arg'.name}
               /\ \A n \in DOMAIN managers : managers'[n] = managers[n]
    /\ (pc = "idle" /\ op' = "UnregisterManager") =>
          IF arg'.name \notin DOMAIN managers
          THEN err' = ErrNotFound(arg'.name) /\ managers' = managers
          ELSE /\ err' = Nil
               /\ DOMAIN managers' = DOMAIN managers \ {arg'.name}
               /\ \A n \in DOMAIN managers' : managers'[n] = managers[n]

RegistryNamesUnique == [][RegistryNamesUniqueStep]_vars

\* RegisterManager has refused a name that is registered, the entry of that
\* name being the backend registered at construction
DuplicateRegistrationRefused ==
    /\ pc = "done"
    /\ op = "RegisterManager"
    /\ err = ErrAlreadyRegistered(arg.name)
    /\ arg.name \in Backends
    /\ managers[arg.name] = arg.name

\* a RegisterManager or UnregisterManager call is made
RegistryWriteCall ==
    /\ pc = "idle"
    /\ pc' = "done"
    /\ op' \in {"RegisterManager", "UnregisterManager"}

\* C14: the map GetAllManagers returns holds the registry's entries of that
\* moment and is a copy: a step in which the caller adds to or deletes from
\* the map leaves the registry as it was, and a later RegisterManager or
\* UnregisterManager leaves the returned map as it was.
SnapshotIsCopyStep ==
    /\ (pc = "idle" /\ op' = "GetAllManagers") => held'.map = managers
    /\ (pc = "idle" /\ pc' = "idle" /\ held'.map # held.map) => managers' = managers
    /\ RegistryWriteCall => held'.map = held.map

SnapshotIsCopy == [][SnapshotIsCopyStep]_vars

\* the caller added a name to the returned map, and a later UnregisterManager
\* removed from the registry a name the returned map still has
SnapshotOutlivesUnregister ==
    /\ pc = "done"
    /\ op = "UnregisterManager"
    /\ err = Nil
    /\ arg.name \in DOMAIN held.map
    /\ "bogus" \in DOMAIN held.map
    /\ "bogus" \notin DOMAIN managers

\* goroutine t is between the lock call of its method and the unlock
InCritical(t) == threads[t].pc \in {"critical", "hung"}

\* goroutine t runs a method that writes the registry
IsWriter(t) == threads[t].op \in {"RegisterManager", "UnregisterManager"}

\* C15: while a goroutine is inside RegisterManager or UnregisterManager,
\* between the lock and the unlock, no other goroutine is inside any registry
\* method: not a second writer, and not GetManager, GetAllManagers or
\* GetAvailableManagers, its loop over the map and its IsAvailable calls
\* included. Readers are not excluded from one another.
WritersExclusive ==
    \A t1, t2 \in Threads :
        (t1 # t2 /\ IsWriter(t1) /\ InCritical(t1)) => ~InCritical(t2)

\* two readers overlap: one is in the middle of the loop of
\* GetAvailableManagers while another is inside GetManager
ReadersOverlap ==
    \E t1, t2 \in Threads :
        /\ threads[t1].pc = "critical"
        /\ threads[t1].op = "GetAvailableManagers"
        /\ threads[t1].todo # {}
        /\ threads[t1].todo # DOMAIN managers
        /\ threads[t2].pc = "critical"
        /\ threads[t2].op = "GetManager"

\* C17: a GetAvailableManagers call whose context is done returns, even when
\* the IsAvailable probe of one backend never returns.
AvailabilityCallReturnsOnceContextDone ==
    \A t \in Threads :
        (threads[t].op = "GetAvailableManagers" /\ threads[t].ctxDone)
            ~> (threads[t].pc = "idle")

\* C16: an aggregate call whose context is cancelled or times out while its
\* goroutines run returns, even when the backend call of one goroutine never
\* returns.
AggregateReturnsOnceContextDone ==
    (pc = "fanout" /\ ctxDone) ~> (pc = "done")

\* the packages of slice s that backend b reported, in the order reported
PackagesFrom(s, b) == SelectSeq(s, LAMBDA pkg : pkg.Manager = b)

\* the packages of slice s as they arrive when the goroutines finish in the
\* order bun, npm, pnpm, yarn
PackagesInBackendOrder(s) ==
    PackagesFrom(s, "bun") \o PackagesFrom(s, "npm")
        \o PackagesFrom(s, "pnpm") \o PackagesFrom(s, "yarn")

\* C18: what GetAllPackages and GetGlobalPackages return depends only on
\* what each backend reported, not on the order in which the goroutines
\* finished: it is the list returned when they finish in the order bun, npm,
\* pnpm, yarn.
PackagesIndependentOfArrival ==
    (pc = "done" /\ op \in {"GetAllPackages", "GetGlobalPackages"} /\ err = Nil) =>
        result = sortByName(removeDuplicatePackages(PackagesInBackendOrder(acc)))

\* the projects of slice s that backend b reported, in the order reported
ProjectsFrom(s, b) == SelectSeq(s, LAMBDA project : project.Managers = <<b>>)

\* the projects of slice s as they arrive when the goroutines finish in the
\* order bun, npm, pnpm, yarn
ProjectsInBackendOrder(s) ==
    ProjectsFrom(s, "bun") \o ProjectsFrom(s, "npm")
        \o ProjectsFrom(s, "pnpm") \o ProjectsFrom(s, "yarn")

\* C19: what ScanProjects returns depends only on what each backend
\* reported, not on the order in which the goroutines finished: it is the
\* list returned when they finish in the order bun, npm, pnpm, yarn, with the
\* same name, lock file and manager list in every merged record.
ProjectsIndependentOfArrival ==
    (pc = "done" /\ op = "ScanProjects" /\ err = Nil) =>
        \E mergedProjects \in mergeProjects(ProjectsInBackendOrder(acc)) :
            result = sortByPath(mergedProjects)

\* the backends whose call failed without an entry in the errors slice
Unrecorded ==
    {b \in Failed : \A i \in 1..Len(errors) : errors[i].manager # b}

\* C20: in GetAllPackages a backend that answers ErrProjectNotFound adds no
\* package and no entry to the errors slice; the call returns a nil error
\* and the packages of the other backends, sorted and without duplicates,
\* which is the empty list when no backend reported a package.
ProjectNotFoundAbsorbed ==
    (pc = "done" /\ op = "GetAllPackages" /\ arg.path # "") =>
        /\ err = Nil
        /\ \A i \in 1..Len(errors) : errors[i].cause # ErrProjectNotFound
        /\ \A b \in Unrecorded : \A i \in 1..Len(result) : result[i].Manager # b
        /\ result = sortByName(removeDuplicatePackages(acc))
        /\ Succeeded = {} => result = <<>>

\* GetAllPackages returned the packages of one backend while another
\* answered ErrProjectNotFound
PackagesDespiteProjectNotFound ==
    /\ pc = "done"
    /\ op = "GetAllPackages"
    /\ Unrecorded # {}
    /\ Len(result) > 0
    /\ err = Nil

\* C21: however many goroutines make the first calls of GetGlobalFactory at
\* the same time, NewManagerFactory runs at most once, no call returns nil,
\* every call returns the one instance built, and once it is built the
\* registry holds exactly npm, pnpm, yarn and bun, each under the name its
\* Name() returns.
GlobalFactoryBuiltOnce ==
    /\ constructions <= 1
    /\ \A t \in OnceCallers :
          /\ threads[t].pc = "return" => globalFactory # 0
          /\ threads[t].got # 0 => threads[t].got = globalFactory
    /\ \A t1, t2 \in OnceCallers :
          (threads[t1].got # 0 /\ threads[t2].got # 0) => threads[t1].got = threads[t2].got
    /\ globalFactory # 0 =>
          /\ DOMAIN managers = {"npm", "pnpm", "yarn", "bun"}
          /\ \A n \in DOMAIN managers : Name(managers[n]) = n

\* one goroutine has the instance while another, which called before the
\* instance was built, holds the mutex of the Once and finds the work done
LateCallerFindsFactoryBuilt ==
    \E t1, t2 \in OnceCallers :
        /\ threads[t1].got = 1
        /\ threads[t2].pc = "locked"
        /\ factoryOnce.done

RECURSIVE SumOfSizes(_)
\* the sum of the cache sizes of the backends in the set bs
SumOfSizes(bs) ==
    IF bs = {} THEN 0
    ELSE LET b == CHOOSE x \in bs : TRUE IN cache[b] + SumOfSizes(bs \ {b})

\* C22: GetTotalCacheSize returns the sum of the sizes of the records of
\* its GetAllCacheInfo, one record per backend that answered, and the
\* TotalSize of GetCacheSummary is the same sum: with the same backend state
\* and the same backends answering the two agree.
TotalIsSumOfSizes ==
    /\ (pc = "done" /\ op = "GetTotalCacheSize") =>
          /\ err = Nil
          /\ result = SumOfSizes(Succeeded)
          /\ Len(acc) = Cardinality(Succeeded)
    /\ (pc = "done" /\ op = "GetCacheSummary") =>
          /\ err = Nil
          /\ result.TotalSize = SumOfSizes(Succeeded)
          /\ result.ManagerCount = Cardinality(Succeeded)

\* GetTotalCacheSize added up three records, one of them of an empty cache
TotalOfThreeRecords ==
    /\ pc = "done"
    /\ op = "GetTotalCacheSize"
    /\ Len(acc) = 3
    /\ \E i \in 1..Len(acc) : acc[i].Size = 0
    /\ result = 2 * MaxCacheSize

\* the records GetAllCacheInfo returned to the call in flight
CacheRecords == sortByManager(acc)

\* C23: when GetAllCacheInfo yields at least one record, LargestCacheSize of
\* GetCacheSummary is the largest size among the records and
\* LargestCacheManager is the manager of the first record, in manager-name
\* order, that has this size, whatever the sizes are.
LargestIsFirstMaximum ==
    (pc = "done" /\ op = "GetCacheSummary" /\ Len(acc) > 0) =>
        \E i \in 1..Len(CacheRecords) :
            /\ \A j \in 1..Len(CacheRecords) : CacheRecords[j].Size <= CacheRecords[i].Size
            /\ \A j \in 1..(i - 1) : CacheRecords[j].Size < CacheRecords[i].Size
            /\ result.LargestCacheSize = CacheRecords[i].Size
            /\ result.LargestCacheManager = CacheRecords[i].Manager

\* C24: for fixed global package lists GetPackageInfo returns the same
\* record under every completion order of the goroutines, the one returned
\* when they finish in the order bun, npm, pnpm, yarn, also when several
\* backends report a package of that name; it returns ErrPackageNotFound
\* exactly when no reported global package has the name.
PackageInfoIndependentOfArrival ==
    (pc = "done" /\ op = "GetPackageInfo" /\ arg.name # "") =>
        /\ result = findPackage(sortByName(removeDuplicatePackages(
                                   PackagesInBackendOrder(acc))), arg.name).value
        /\ (err = ErrPackageNotFound) <=>
              ~ \E i \in 1..Len(acc) : acc[i].Name = arg.name

RECURSIVE SumOfCounts(_)
\* the sum of the values of a map of counts
SumOfCounts(byManager) ==
    IF DOMAIN byManager = {} THEN 0
    ELSE LET k == CHOOSE x \in DOMAIN byManager : TRUE IN
         byManager[k] + SumOfCounts([x \in DOMAIN byManager \ {k} |-> byManager[x]])

\* the deduplicated, sorted list the statistics call in flight was given
StatsPackages == sortByName(removeDuplicatePackages(acc))

\* C25: the package statistics count the deduplicated list: TotalPackages
\* is its length and is LocalPackages + GlobalPackages, the counts per
\* manager are those of the list and add up to TotalPackages, and
\* GetGlobalPackageStats has every package global and none local.
PackageStatsAreFold ==
    (pc = "done" /\ op \in {"GetPackageStats", "GetGlobalPackageStats"} /\ err = Nil) =>
        /\ result.TotalPackages = Len(StatsPackages)
        /\ result.TotalPackages = result.LocalPackages + result.GlobalPackages
        /\ SumOfCounts(result.ByManager) = result.TotalPackages
        /\ \A b \in Backends :
              Len(PackagesFrom(StatsPackages, b)) =
                  IF b \in DOMAIN result.ByManager THEN result.ByManager[b] ELSE 0
        /\ op = "GetGlobalPackageStats" =>
              /\ result.GlobalPackages = result.TotalPackages
              /\ result.LocalPackages = 0

\* statistics of a project whose packages came from two backends, one
\* record dropped as a duplicate
StatsOverTwoManagers ==
    /\ pc = "done"
    /\ op = "GetPackageStats"
    /\ err = Nil
    /\ Len(StatsPackages) < Len(acc)
    /\ Cardinality(DOMAIN result.ByManager) = 2
    /\ result.LocalPackages = 2

\* where manager stands in a grouping: the pairs of a group key and a
\* position in that group
Occurrences(groups, manager) ==
    {kp \in UNION {{<<k, i>> : i \in 1..Len(groups[k])} : k \in DOMAIN groups} :
        groups[kp[1]][kp[2]] = manager}

\* groups holds each backend of names once, in the group keyed by its
\* value when that is not empty, and nothing else; values[i] is the registry
\* or proxy of backend names[i]
Partitions(groups, names, values) ==
    /\ \A i \in 1..Len(names) :
          IF values[i] = <<>>
          THEN Occurrences(groups, names[i]) = {}
          ELSE \E p \in 1..Len(names) :
                  Occurrences(groups, names[i]) = {<<values[i], p>>}
    /\ \A k \in DOMAIN groups :
          /\ k # <<>>
          /\ Len(groups[k]) > 0
          /\ \A p \in 1..Len(groups[k]) :
                \E i \in 1..Len(names) : names[i] = groups[k][p]

\* the config records the summary call in flight was given
SummaryConfigs == sortByManager(acc)

\* C26: GetConfigSummary counts the config records of GetAllConfigs, and
\* each backend with a non-empty registry (proxy) stands exactly once in the
\* registry (proxy) grouping, in the group keyed by its own value; a
\* backend with an empty value stands in no group.
ConfigSummaryIsFold ==
    (pc = "done" /\ op = "GetConfigSummary") =>
        /\ err = Nil
        /\ result.ManagerCount = Len(SummaryConfigs)
        /\ DOMAIN result.Managers = {SummaryConfigs[i].Manager : i \in 1..Len(SummaryConfigs)}
        /\ Partitions(result.Registries,
                      [i \in 1..Len(SummaryConfigs) |-> SummaryConfigs[i].Manager],
                      [i \in 1..Len(SummaryConfigs) |-> SummaryConfigs[i].Registry])
        /\ Partitions(result.Proxies,
                      [i \in 1..Len(SummaryConfigs) |-> SummaryConfigs[i].Manager],
                      [i \in 1..Len(SummaryConfigs) |-> SummaryConfigs[i].Proxy])

\* a summary over three backends: two registries, one of them shared, and a
\* backend without a proxy next to one with a proxy
SummaryWithSharedRegistry ==
    /\ pc = "done"
    /\ op = "GetConfigSummary"
    /\ result.ManagerCount = 3
    /\ Cardinality(DOMAIN result.Registries) = 2
    /\ Cardinality(DOMAIN result.Proxies) = 1
    /\ \E k \in DOMAIN result.Registries : Len(result.Registries[k]) = 2

\* the manifest the dependency call in flight read
ManifestRead == arg.name

\* the children of the returned tree that carry the dev flag, or do not
ChildrenFlagged(dev) ==
    {i \in 1..Len(result.Dependencies) : result.Dependencies[i].DevDependency = dev}

\* C27: the tree GetProjectDependencies returns comes from the manifest
\* alone: the root has depth 0, there is one child per entry of the
\* dependency map and one per entry of the dev-dependency map, each of depth
\* 1 and without children, flagged as dev exactly when it comes from the
\* dev-dependency map, and no backend is probed or called.
TreeIsOneLevelOfManifest ==
    (pc = "done" /\ op = "GetProjectDependencies" /\ err = Nil) =>
        /\ result.Depth = 0
        /\ result.Name = ManifestRead.Name
        /\ Len(result.Dependencies) =
              Cardinality(DOMAIN ManifestRead.Dependencies)
                  + Cardinality(DOMAIN ManifestRead.DevDependencies)
        /\ \A i \in 1..Len(result.Dependencies) :
              /\ result.Dependencies[i].Depth = 1
              /\ result.Dependencies[i].Dependencies = <<>>
        /\ {<<result.Dependencies[i].Name, result.Dependencies[i].Version>> :
                i \in ChildrenFlagged(FALSE)}
              = {<<n, ManifestRead.Dependencies[n]>> : n \in DOMAIN ManifestRead.Dependencies}
        /\ Cardinality(ChildrenFlagged(FALSE)) = Cardinality(DOMAIN ManifestRead.Dependencies)
        /\ {<<result.Dependencies[i].Name, result.Dependencies[i].Version>> :
                i \in ChildrenFlagged(TRUE)}
              = {<<n, ManifestRead.DevDependencies[n]>> :
                    n \in DOMAIN ManifestRead.DevDependencies}
        /\ Cardinality(ChildrenFlagged(TRUE)) = Cardinality(DOMAIN ManifestRead.DevDependencies)
        /\ invoked = NoInvocations
        /\ probed = NoCalls

\* a tree of four children: the same two names as dependencies and as dev
\* dependencies
TreeWithNameInBothMaps ==
    /\ pc = "done"
    /\ op = "GetProjectDependencies"
    /\ err = Nil
    /\ Len(result.Dependencies) = 4
    /\ DOMAIN ManifestRead.Dependencies = DOMAIN ManifestRead.DevDependencies
    /\ result.Dependencies[1].Name = "b"

\* the backend the single-backend call in flight resolved its name to
BackendCalled == managers[arg.name]

\* C28: a single-backend service call that reached its backend returns
\* what the backend's operation returned: the backend's own error, not
\* wrapped or replaced, when it failed, and the backend's value when it
\* succeeded.
SingleCallPassesBackendReturn ==
    (/\ pc = "done"
     /\ op \in SingleOps
     /\ arg.name \in DOMAIN managers
     /\ invoked[BackendCalled] # <<>>) =>
        /\ Len(invoked[BackendCalled]) = 1
        /\ (err = Nil) <=> invoked[BackendCalled][1]
        /\ CASE op = "GetCacheInfo" ->
                   [value |-> result, err |-> err] \in BackendGetCacheInfo(BackendCalled)
             [] op = "GetConfig" ->
                   [value |-> result, err |-> err] \in BackendGetConfig(BackendCalled)
             [] op = "GetPackagesByManager" ->
                   [value |-> result, err |-> err]
                       \in BackendGetInstalledPackages(BackendCalled)
             [] op = "GetGlobalPackagesByManager" ->
                   [value |-> result, err |-> err]
                       \in BackendGetGlobalPackages(BackendCalled)
             [] op = "ClearCache" ->
                   err \in {r.err : r \in BackendClearCache(BackendCalled)}
             [] op = "SetRegistry" ->
                   err \in {r.err : r \in BackendSetRegistry(BackendCalled, arg.url)}
             [] op = "SetProxy" ->
                   err \in {r.err : r \in BackendSetProxy(BackendCalled, arg.url)}

\* GetConfig("pnpm") returned the error pnpm's GetConfig failed with
BackendErrorPassedThrough ==
    /\ pc = "done"
    /\ op = "GetConfig"
    /\ arg.name = "pnpm"
    /\ invoked["pnpm"] = <<FALSE>>
    /\ err = BackendError("pnpm", "get config")

\* C29: every command a backend operation runs for a service call is
\* started with the caller's context, GetInstalledPackages included, so once
\* that context is cancelled no command of the call is running.
CommandsBoundToCallerContext ==
    /\ \A p \in procs : p.ctx = "caller"
    /\ ctxDone => procs = {}

\* the names of the snapshot whose goroutine has finished and that stand
\* for backend b
FinishedFor(b) ==
    {n \in DOMAIN availableManagers \ pending : availableManagers[n] = b}

\* C30: an aggregate call starts one goroutine per entry of its snapshot of
\* available backends, each goroutine calls its backend's operation once,
\* the call returns only when every goroutine has finished, and nothing is
\* added to the accumulated results after it has returned.
FanOutThenJoin ==
    /\ [][(pc = "idle" /\ pc' = "fanout") =>
            /\ availableManagers' = GetAvailableManagers
            /\ pending' = DOMAIN availableManagers']_vars
    /\ []((pc \in {"fanout", "done"} /\ op \in ReadOps) =>
            /\ pending \subseteq DOMAIN availableManagers
            /\ \A b \in Backends : Len(invoked[b]) = Cardinality(FinishedFor(b))
            /\ pc = "done" => pending = {})
    /\ [][pc = "done" =>
            \/ pc' = "idle"
            \/ acc' = acc /\ errors' = errors /\ invoked' = invoked]_vars

\* a call over all four backends has returned, each backend called once
ReturnedAfterFourTasks ==
    /\ pc = "done"
    /\ op = "GetAllCacheInfo"
    /\ Cardinality(DOMAIN availableManagers) = 4
    /\ \A b \in Backends : Len(invoked[b]) = 1
    /\ Len(acc) + Len(errors) = 4

\* the goroutines of call c whose backend call succeeded, or failed
TasksOf(c, ok) == {n \in DOMAIN threads[c].task : threads[c].ok[n] = ok}

\* C31: each of two concurrent aggregate calls has returned exactly the
\* records of its own goroutines: one cache record, or one counted success,
\* per goroutine that succeeded and one error per goroutine that failed, and
\* none made by the other call, under every interleaving of the appends.
AccumulatorPrivateAndComplete ==
    \A c \in Calls :
        threads[c].pc = "done" =>
            /\ \A i \in 1..Len(threads[c].cacheInfos) : threads[c].cacheInfos[i].call = c
            /\ \A i \in 1..Len(threads[c].errors) : threads[c].errors[i].call = c
            /\ {threads[c].errors[i].manager : i \in 1..Len(threads[c].errors)}
                  = TasksOf(c, FALSE)
            /\ Len(threads[c].errors) = Cardinality(TasksOf(c, FALSE))
            /\ IF CallOp(c) = "GetAllCacheInfo"
               THEN /\ Len(threads[c].cacheInfos) = Cardinality(TasksOf(c, TRUE))
                    /\ {threads[c].cacheInfos[i].Manager :
                           i \in 1..Len(threads[c].cacheInfos)}
                          = {threads[c].snapshot[n] : n \in TasksOf(c, TRUE)}
               ELSE threads[c].clearedCount = Cardinality(TasksOf(c, TRUE))

\* both calls have returned after running side by side, two goroutines
\* each, with a success and a failure in both
TwoCallsReturnedTogether ==
    \A c \in Calls :
        /\ threads[c].pc = "done"
        /\ Cardinality(DOMAIN threads[c].task) = 2
        /\ Cardinality(TasksOf(c, TRUE)) = 1
        /\ Len(threads[c].errors) = 1

\* the reports for path among the projects the goroutines delivered, in the
\* order delivered, and those of them that carry a lock file
ReportsFor(path) == SelectSeq(acc, LAMBDA project : project.Path = path)
LockedReportsFor(path) ==
    SelectSeq(ReportsFor(path), LAMBDA project : project.LockFile # "")

\* C32: the lock file of a merged project record is empty exactly when no
\* report for its path carried one, and otherwise is the lock file of the
\* first report for the path that carried one: a later report never
\* replaces it.
FirstLockFileKept ==
    (pc = "done" /\ op = "ScanProjects" /\ err = Nil) =>
        \A i \in 1..Len(result) :
            result[i].LockFile =
                IF Len(LockedReportsFor(result[i].Path)) = 0 THEN ""
                ELSE LockedReportsFor(result[i].Path)[1].LockFile

\* a merged record over three reports: the first without a lock file, then
\* two with different lock files
MergedOverTwoLockFiles ==
    /\ pc = "done"
    /\ op = "ScanProjects"
    /\ err = Nil
    /\ Len(ReportsFor("/p")) = 3
    /\ ReportsFor("/p")[1].LockFile = ""
    /\ Len(LockedReportsFor("/p")) = 2
    /\ \E i \in 1..Len(result) : result[i].Path = "/p" /\ result[i].LockFile # ""

\* C33: ScanProjects with an empty, missing or non-directory root path and
\* GetAllPackages with an empty project path return a ValidationError
\* without probing or calling any backend; a call that probed the backends
\* had passed its validation.
ValidationBeforeBackends ==
    (pc = "done" /\ op \in {"ScanProjects", "GetAllPackages"}) =>
        /\ arg.path = "" => err.kind = "ValidationError"
        /\ err.kind = "ValidationError" =>
              /\ err.message \in {"root path cannot be empty", "path does not exist",
                                  "path is not a directory",
                                  "project path cannot be empty"}
              /\ probed = NoCalls
              /\ invoked = NoInvocations
              /\ availableManagers = EmptyMap
        /\ probed # NoCalls => (arg.path # "" /\ err = Nil)

\* ScanProjects refused a root path that is a file while backends were
\* available
FileRootRefused ==
    /\ pc = "done"
    /\ op = "ScanProjects"
    /\ err.kind = "ValidationError"
    /\ err.message = "path is not a directory"
    /\ \E b \in Backends : available[b]

\* the backends whose lock file is among the files of the analysed directory
LockOwners == {b \in Backends : LockName(b) \in disk[arg.path]}

\* C34: the lock file AnalyzeProject reports is that of the first manager,
\* in the order npm, pnpm, yarn, bun, whose lock file is in the directory;
\* with no lock file it is empty and the manager list is [npm].
AnalysisReportsFirstLockFile ==
    (pc = "done" /\ op = "AnalyzeProject" /\ err = Nil) =>
        IF LockOwners = {}
        THEN result.LockFile = "" /\ result.Managers = <<"npm">>
        ELSE \E i \in 1..Len(DetectionOrder) :
                /\ DetectionOrder[i] \in LockOwners
                /\ \A j \in 1..(i - 1) : DetectionOrder[j] \notin LockOwners
                /\ result.LockFile = JoinPath(arg.path, LockName(DetectionOrder[i]))

\* C40: with all four backends available, for every directory that holds a
\* manifest the record ScanProjects returns for it lists the same managers
\* as detectProjectManagers, and so AnalyzeProject, reports for it.
ScanAgreesWithAnalysis ==
    (/\ pc = "done"
     /\ op = "ScanProjects"
     /\ err = Nil
     /\ {availableManagers[n] : n \in DOMAIN availableManagers} = Backends) =>
        \A p \in ProjectPaths :
            "package.json" \in disk[p] =>
                \E i \in 1..Len(result) :
                    /\ result[i].Path = p
                    /\ Range(result[i].Managers) = Range(detectProjectManagers(disk[p]))

\* the names of the snapshot that stand for backend b
SnapshotNames(b) == {n \in DOMAIN availableManagers : availableManagers[n] = b}

\* C35: an aggregate call works on the snapshot of available backends taken at
\* its start: the snapshot holds the backends registered and available at that
\* step, no registry or availability change made afterwards alters it, and
\* the call invokes each backend once per name of the snapshot, whether the
\* backend is still registered or not, and no backend registered later.
InvocationsFollowSnapshot ==
    /\ [][(pc = "idle" /\ pc' = "fanout") =>
            availableManagers' =
                [n \in {m \in DOMAIN managers : available[managers[m]]} |-> managers[n]]]_vars
    /\ [][(pc = "fanout" /\ pc' # "idle") => availableManagers' = availableManagers]_vars
    /\ [](pc = "done" =>
            \A b \in Backends : Len(invoked[b]) = Cardinality(SnapshotNames(b)))

\* a call has returned after one backend of its snapshot was unregistered and
\* another name was registered: the first was invoked, the second was not
UnregisteredStillInvoked ==
    /\ pc = "done" /\ op = "GetAllCacheInfo"
    /\ \E n \in DOMAIN availableManagers :
          /\ n \notin DOMAIN managers
          /\ Len(invoked[availableManagers[n]]) = 1
    /\ \E n \in DOMAIN managers : n \notin DOMAIN availableManagers

\* what the claim calls the triple of a package
Triple(pkg) == <<pkg.Name, pkg.Version, pkg.Manager>>

\* C36: every distinct (name, version, manager) triple of the raw fan-out
\* output appears exactly once in the result of GetAllPackages, also when
\* names or versions contain '@' or ':'.
EveryTripleKeptOnce ==
    (pc = "done" /\ op = "GetAllPackages" /\ err = Nil) =>
        \A i \in 1..Len(acc) :
            Cardinality({j \in 1..Len(result) : Triple(result[j]) = Triple(acc[i])}) = 1

\* the backends of the snapshot the call works on
SnapshotBackends == {availableManagers[n] : n \in DOMAIN availableManagers}

\* what the setters of the call in flight write to
ConfiguredURL(b) == IF op = "SetRegistryForAll" THEN registryCfg[b] ELSE proxyCfg[b]

\* C39: whenever bun is among the available backends, SetRegistryForAll and
\* SetProxyForAll called with a URL that passes validation return a combined
\* error with an entry for bun, bun's setter having failed, while the setter
\* of every other available backend has been invoked once and what it wrote
\* is still in place.
BunFailureReportedOthersKept ==
    (WriteReturned /\ op \in {"SetRegistryForAll", "SetProxyForAll"}
        /\ "bun" \in SnapshotBackends) =>
        /\ err # Nil
        /\ err.kind = "Combined"
        /\ \E i \in 1..Len(err.errors) :
              /\ availableManagers[err.errors[i].manager] = "bun"
              /\ err.errors[i].cause.kind = "ManagerError"
              /\ err.errors[i].cause.manager = "bun"
        /\ invoked["bun"] = <<FALSE>>
        /\ \A b \in SnapshotBackends \ {"bun"} :
              /\ Len(invoked[b]) = 1
              /\ invoked[b] = <<TRUE>> => ConfiguredURL(b) = arg.url

\* SetRegistryForAll returned with bun the only failure: the three other
\* backends have the new registry
OnlyBunRefused ==
    /\ pc = "done"
    /\ op = "SetRegistryForAll"
    /\ arg.url = URLHttpsH
    /\ Failed = {"bun"}
    /\ Succeeded = {"npm", "pnpm", "yarn"}
    /\ \A b \in Succeeded : registryCfg[b] = URLHttpsH
    /\ registryCfg["bun"] = URLDefault
    /\ err # Nil

\* C38: in what GetCacheSummary returns, every manager counted in
\* ManagerCount, and the LargestCacheManager, is in the AvailableManagers of
\* the same summary, so ManagerCount is at most their number, also when
\* availability or registration changes between the two probes.
SummaryCountsOnlyListedManagers ==
    (pc = "done" /\ op = "GetCacheSummary") =>
        /\ \A i \in 1..Len(acc) : acc[i].Manager \in result.AvailableManagers
        /\ result.LargestCacheManager # "" =>
              result.LargestCacheManager \in result.AvailableManagers
        /\ result.ManagerCount <= Cardinality(result.AvailableManagers)

\* C37: a RegisterManager or UnregisterManager call returns in the end, also
\* while another goroutine's GetAvailableManagers is inside an IsAvailable
\* probe that does not come back.
RegistryWriterReturns ==
    \A t \in Threads :
        (threads[t].pc = "locking" /\ LockKind(threads[t].op) = "Lock")
            ~> (threads[t].pc = "idle")

====
